---- MODULE Spec2Model ----
(***************************************************************************)
(* A model of the sentiment middleware of mcp-l-core                       *)
(* (src/lib/middleware/sentiment/analyzer.js).                             *)
(*                                                                         *)
(* Numbers.  Lexicon weights are kept in tenths (1.3 is 13) and            *)
(* confidences in ten-thousandths (0.9 is 9000, 0.98 is 9800).  The        *)
(* normalized score sentimentScore / sqrt(wordCount) is irrational in      *)
(* general, so it is never stored: it is carried as the pair               *)
(* (sentimentScore, wordCount), its comparisons with the thresholds of     *)
(* the code are decided exactly on the squares, and a confidence           *)
(* 0.7 + normalizedScore / d is stored rounded down to a ten-thousandth.   *)
(* Rounding down keeps every comparison with a threshold that is itself a  *)
(* whole number of ten-thousandths exact (floor(x) < n iff x < n).         *)
(* Arithmetic is that of the reals, not of IEEE doubles.                   *)
(*                                                                         *)
(* Text.  A JavaScript string is a TLA+ string; its characters are read    *)
(* with SubSeq.                                                            *)
(***************************************************************************)
EXTENDS Integers, Sequences, FiniteSets, TLC

VARIABLES
    config,          \* this.config of the analyzer instance
    dictionary,      \* this.dictionary of the analyzer instance (merged lexicon)
    typed,           \* the pieces of text the caller has put into content
    content,         \* the value handed to analyzeSentiment
    analysis,        \* what analyzeSentiment returned for content, or NoAnalysis
    baseContent,     \* the text analysed before the caller appended filler to it
    baseAnalysis,    \* what analyzeSentiment returned for baseContent, or NoAnalysis
    heap,            \* the objects of the caller and of analyze, by address
    input,           \* the message the caller hands to analyze (a reference)
    output,          \* the message analyze returned last, or Undefined
    scored,          \* whether the last call of analyze called analyzeSentiment
    calls,           \* the number of calls of analyze so far
    writes,          \* the number of property writes of the caller so far
    callView,        \* the input message as it was when analyze was called last
    returnView,      \* the message as analyze returned it last
    prevReturnView,  \* the message as the call before the last returned it
    expectedInput,   \* the input message as the caller's own writes left it
    expectedOutput,  \* the returned message as the caller's own writes left it
    analyzers,       \* the analyzer instances constructed so far, in order
    first,           \* the first call of analyzeSentiment on an instance
    last,            \* the latest call of analyzeSentiment on an instance
    made,            \* the number of calls of analyzeSentiment on instances
    objects,         \* the objects of a MessageBuilder and of its caller, by address
    returned,        \* what the last call of a method of the builder returned
    lastArgs,        \* the arguments of the last call of each setter
    built,           \* the message build() returned last (a reference)
    buildView,       \* the message as build() returned it last
    builtFrom,       \* lastArgs as it was when build() was called last
    builtView,       \* the built message as the caller's own writes left it
    written,         \* whether the caller has written to a built message
    steps,           \* the number of calls and writes of the caller so far
    files,           \* the file system: what is at each path
    lastRun,         \* the last run: new MCPLValidator(path) or validate-mcpl args
    validator,       \* the instance new MCPLValidator returned, if it returned
    thrown,          \* the error new MCPLValidator threw, if it threw
    exitCode         \* the exit code of the last run of validate-mcpl

analyzerVars == <<config, dictionary>>
scoreVars == <<typed, content, analysis, baseContent, baseAnalysis>>
messageVars == <<heap, input, output, scored, calls, writes, callView,
                 returnView, prevReturnView, expectedInput, expectedOutput>>
instanceVars == <<analyzers, first, last, made>>
builderVars == <<objects, returned, lastArgs, built, buildView, builtFrom,
                 builtView, written, steps>>
toolVars == <<files, lastRun, validator, thrown, exitCode>>
clientVars == <<instanceVars, builderVars, toolVars>>
vars == <<analyzerVars, scoreVars, messageVars, clientVars>>

(***************************************************************************)
(* JavaScript values.  Every value is a record of the same three fields so *)
(* that any two values can be compared.                                    *)
(***************************************************************************)
Undefined == [k |-> "undefined", n |-> 0, s |-> ""]
Null      == [k |-> "null", n |-> 0, s |-> ""]
NaN       == [k |-> "nan", n |-> 0, s |-> ""]
Num(i)    == [k |-> "number", n |-> i, s |-> ""]
Str(t)    == [k |-> "string", n |-> 0, s |-> t]
Ref(a)    == [k |-> "object", n |-> a, s |-> ""]   \* the object at address a

\* typeof v !== 'string'
IsString(v) == v.k = "string"

\* !v for the values of the model
Falsy(v) ==
    \/ v.k \in {"undefined", "null", "nan"}
    \/ v.k = "number" /\ v.n = 0
    \/ v.k = "string" /\ v.s = ""

(***************************************************************************)
(* String operations of the code.                                          *)
(***************************************************************************)
CharAt(t, i) == SubSeq(t, i, i)

UpperCaseLetters == "ABCDEFGHIJKLMNOPQRSTUVWXYZ"
LowerCaseLetters == "abcdefghijklmnopqrstuvwxyz"

UpperToLower ==
    [c \in {CharAt(UpperCaseLetters, i) : i \in 1..Len(UpperCaseLetters)} |->
        CharAt(LowerCaseLetters,
               CHOOSE i \in 1..Len(UpperCaseLetters) :
                   CharAt(UpperCaseLetters, i) = c)]

LowerChar(c) == IF c \in DOMAIN UpperToLower THEN UpperToLower[c] ELSE c

\* String.prototype.toLowerCase, character by character; the text is taken
\* apart in halves
RECURSIVE toLowerCase(_)
toLowerCase(t) ==
    IF t = "" THEN ""
    ELSE IF Len(t) = 1 THEN LowerChar(CharAt(t, 1))
    ELSE LET half == Len(t) \div 2
         IN  toLowerCase(SubSeq(t, 1, half))
               \o toLowerCase(SubSeq(t, half + 1, Len(t)))

\* String.prototype.includes
includes(t, term) ==
    \E i \in 1..(Len(t) - Len(term) + 1) : SubSeq(t, i, i + Len(term) - 1) = term

\* \s of a regular expression, for the characters of the model
IsSpace(c) == c \in {" ", "\t", "\n"}

\* SplitLength with every text counted as one word: the score is not
\* normalized
SplitLengthOne(t) == 1

\* SplitLength counting the words only, as t.split(/\s+/).filter(Boolean).length
\* would: the number of maximal runs of characters that are not white space
SplitLengthOfWords(t) ==
    Cardinality({i \in 1..Len(t) :
        /\ ~IsSpace(CharAt(t, i))
        /\ (i = 1 \/ IsSpace(CharAt(t, i - 1)))})

\* t.split(/\s+/).length: one more than the number of maximal runs of
\* white space (a leading or trailing run delimits an empty token)
SplitLength(t) ==
    1 + Cardinality({i \in 1..Len(t) :
            /\ IsSpace(CharAt(t, i))
            /\ (i = 1 \/ ~IsSpace(CharAt(t, i - 1)))})

\* (t.match(new RegExp('\\b' + term + '\\b|' + term, 'gi')) || []).length for
\* a term without regular-expression metacharacters: the matches of a global
\* regular expression are found left to right and do not overlap; both
\* alternatives match the text of the term (the flag i is read against text
\* that is already lower case), so a match starts wherever the term occurs.
RECURSIVE MatchCountFrom(_, _, _)
MatchCountFrom(t, pat, i) ==
    LET starts == {j \in i..(Len(t) - Len(pat) + 1) :
                      SubSeq(t, j, j + Len(pat) - 1) = pat}
    IN  IF starts = {} THEN 0
        ELSE LET j == CHOOSE x \in starts : \A y \in starts : x <= y
             IN  1 + MatchCountFrom(t, pat, j + Len(pat))

\* MatchCount for a regular expression without the flag g: match returns the
\* first match alone
MatchCountOnce(t, term) == IF includes(t, toLowerCase(term)) THEN 1 ELSE 0

MatchCount(t, term) == MatchCountFrom(t, toLowerCase(term), 1)

\* Whether new RegExp('\\b' + term + '\\b|' + term, 'gi') returns rather than
\* throwing a SyntaxError, for a term of letters, digits, spaces and the
\* characters _ ' ! : ( ) : the source is not a pattern when a parenthesis of
\* the term is left unmatched (a ')' before its '(' , or a '(' never closed)
RegExpCompiles(term) ==
    LET Opened(k) == Cardinality({i \in 1..k : CharAt(term, i) = "("})
        Closed(k) == Cardinality({i \in 1..k : CharAt(term, i) = ")"})
    IN  /\ \A k \in 1..Len(term) : Closed(k) <= Opened(k)
        /\ Closed(Len(term)) = Opened(Len(term))

\* (content.match(/!/g) || []).length
exclamationCount(t) == Cardinality({i \in 1..Len(t) : CharAt(t, i) = "!"})

(***************************************************************************)
(* The analyzer instance: constructor.                                     *)
(***************************************************************************)
\* The entries of the object literal assigned to this.dictionary, in the
\* order of the source, weights in tenths.  The literal names 'amazing'
\* twice, with the same weight.
BuiltinEntries ==
    << <<"good", 7>>, <<"great", 10>>, <<"excellent", 13>>, <<"amazing", 15>>,
      <<"fantastic", 15>>, <<"wonderful", 13>>, <<"happy", 10>>,
      <<"pleased", 8>>, <<"satisfied", 7>>, <<"love", 14>>, <<"like", 8>>,
      <<"enjoy", 9>>, <<"awesome", 15>>, <<"works great", 12>>,
      <<"really happy", 14>>, <<"bad", -7>>, <<"terrible", -13>>,
      <<"awful", -13>>, <<"horrible", -15>>, <<"disappointed", -10>>,
      <<"very disappointed", -15>>, <<"upset", -10>>, <<"frustrated", -12>>,
      <<"frustrating", -12>>, <<"annoyed", -8>>, <<"angry", -13>>,
      <<"hate", -15>>, <<"dislike", -7>>, <<"poor", -7>>, <<"worst", -15>>,
      <<"already", -5>>, <<"repeatedly", -6>>, <<"multiple times", -9>>,
      <<"still not", -8>>, <<"keep getting", -7>>, <<"not working", -8>>,
      <<"told you", -10>>, <<"keeps happening", -9>>,
      <<"still doesn't", -12>>, <<"wow", 15>>, <<"amazing", 15>>,
      <<"incredible", 16>>, <<"unbelievable", 14>>, <<"can't believe", 12>>,
      <<"spectacular", 18>>, <<"!", 3>>, <<"!!", 6>>, <<"!!!", 9>> >>

\* The object the literal evaluates to: a term named more than once has the
\* weight of its last entry
BuiltinDictionary ==
    [term \in {BuiltinEntries[i][1] : i \in DOMAIN BuiltinEntries} |->
        LET i == CHOOSE i \in DOMAIN BuiltinEntries :
                     /\ BuiltinEntries[i][1] = term
                     /\ \A j \in DOMAIN BuiltinEntries :
                           j > i => BuiltinEntries[j][1] # term
        IN  BuiltinEntries[i][2]]

\* A caller's configuration object: confidenceThreshold is a JavaScript value
\* (a number in ten-thousandths, or undefined when the key is left out),
\* customDictionary a term -> weight mapping (the empty mapping when left out).
NoDictionary == [t \in {} |-> 0]

\* config.confidenceThreshold || 0.65
ConfidenceThresholdOf(cfg) ==
    IF Falsy(cfg.confidenceThreshold) THEN 6500 ELSE cfg.confidenceThreshold.n

\* this.config = {...}
ConstructConfig(cfg) ==
    [confidenceThreshold |-> ConfidenceThresholdOf(cfg),
     customDictionary    |-> cfg.customDictionary]

\* The dictionary without the custom entries
ConstructDictionaryBuiltinOnly(cfg) == BuiltinDictionary

\* Object.assign(this.dictionary, this.config.customDictionary): the custom
\* entries win on equal keys (f @@ g keeps f where both are defined)
ConstructDictionary(cfg) == cfg.customDictionary @@ BuiltinDictionary

(***************************************************************************)
(* analyzeSentiment(content).                                              *)
(***************************************************************************)
Result(type, confidence) == [type |-> type, confidence |-> confidence]

\* The call does not return: an exception of the named class leaves it
Raised(error) == [type |-> error, confidence |-> 0]

\* The sentiment types a call can return
SentimentTypes == {"positive", "negative", "neutral", "frustration", "excitement"}

\* sentimentScore after the loop over Object.entries(this.dictionary)
RECURSIVE SumMatches(_, _, _)
SumMatches(dict, terms, lowerContent) ==
    IF terms = {} THEN 0
    ELSE LET term == CHOOSE x \in terms : TRUE
         IN  dict[term] * MatchCount(lowerContent, term)
               + SumMatches(dict, terms \ {term}, lowerContent)

\* if (matches > 0) sentimentScore += score * matches: the terms without a
\* match add nothing
sentimentScore(dict, lowerContent) ==
    SumMatches(dict,
               {term \in DOMAIN dict : MatchCount(lowerContent, term) > 0},
               lowerContent)

\* normalizedScore > t / 10 and normalizedScore < -(t / 10), t >= 0 in
\* tenths, for normalizedScore = score / (10 * sqrt(wordCount))
ScoreAbove(score, wordCount, t) == score > 0 /\ score * score > t * t * wordCount
ScoreBelow(score, wordCount, t) == score < 0 /\ score * score > t * t * wordCount

\* floor(sqrt(x))
RECURSIVE IsqrtBetween(_, _, _)
IsqrtBetween(x, lo, hi) ==
    IF lo >= hi THEN lo
    ELSE LET mid == (lo + hi + 1) \div 2
         IN  IF mid * mid <= x THEN IsqrtBetween(x, mid, hi)
             ELSE IsqrtBetween(x, lo, mid - 1)

Isqrt(x) == IsqrtBetween(x, 0, 46340)

\* ConfidenceFrom with the score multiplied by the square root of the word
\* count where the code divides by it
ConfidenceFromProduct(score, wordCount, d) ==
    7000 + Isqrt((1000 \div d) * (1000 \div d) * score * score * wordCount)

\* 0.7 + |normalizedScore| / d in ten-thousandths, rounded down:
\* |normalizedScore| / d * 10000 = sqrt((1000 / d)^2 * score^2 / wordCount)
ConfidenceFrom(score, wordCount, d) ==
    7000 + Isqrt(((1000 \div d) * (1000 \div d) * score * score) \div wordCount)

Min(a, b) == IF a <= b THEN a ELSE b

\* The part of analyzeSentiment after the special cases: scoring, the
\* thresholds, the cap and the fallback to neutral.
hasFrustrationIndicator(lowerContent) ==
    \/ includes(lowerContent, "already")
    \/ includes(lowerContent, "still")
    \/ includes(lowerContent, "multiple times")
    \/ includes(lowerContent, "told you")
    \/ includes(lowerContent, "doesn't work")

\* Candidate with excitement decided by the score alone, the exclamation
\* marks not counted
CandidateExcitementByScoreAlone(dict, text) ==
    LET lowerContent == toLowerCase(text)
        wordCount == SplitLength(lowerContent)
        score == sentimentScore(dict, lowerContent)
    IN  IF ScoreAbove(score, wordCount, 5)
        THEN IF ScoreAbove(score, wordCount, 15)
             THEN Result("excitement", ConfidenceFrom(score, wordCount, 10))
             ELSE Result("positive", ConfidenceFrom(score, wordCount, 5))
        ELSE IF ScoreBelow(score, wordCount, 5)
        THEN IF \/ hasFrustrationIndicator(lowerContent)
                \/ ScoreBelow(score, wordCount, 10)
             THEN Result("frustration", ConfidenceFrom(score, wordCount, 5))
             ELSE Result("negative", ConfidenceFrom(score, wordCount, 5))
        ELSE Result("neutral", 8000)

\* Candidate with frustration decided by the score alone, the indicators in
\* the text not looked for
CandidateFrustrationByScoreAlone(dict, text) ==
    LET lowerContent == toLowerCase(text)
        wordCount == SplitLength(lowerContent)
        score == sentimentScore(dict, lowerContent)
        hasMultipleExclamations == exclamationCount(text) > 1
    IN  IF ScoreAbove(score, wordCount, 5)
        THEN IF \/ ScoreAbove(score, wordCount, 15)
                \/ ScoreAbove(score, wordCount, 8) /\ hasMultipleExclamations
             THEN Result("excitement", ConfidenceFrom(score, wordCount, 10))
             ELSE Result("positive", ConfidenceFrom(score, wordCount, 5))
        ELSE IF ScoreBelow(score, wordCount, 5)
        THEN IF ScoreBelow(score, wordCount, 10)
             THEN Result("frustration", ConfidenceFrom(score, wordCount, 5))
             ELSE Result("negative", ConfidenceFrom(score, wordCount, 5))
        ELSE Result("neutral", 8000)

\* Candidate with the two outer ranges closed: a normalized score of exactly
\* 0.5 is positive, one of exactly -0.5 negative
CandidateClosedRanges(dict, text) ==
    LET lowerContent == toLowerCase(text)
        wordCount == SplitLength(lowerContent)
        score == sentimentScore(dict, lowerContent)
        hasMultipleExclamations == exclamationCount(text) > 1
    IN  IF score > 0 /\ score * score >= 25 * wordCount
        THEN IF \/ ScoreAbove(score, wordCount, 15)
                \/ ScoreAbove(score, wordCount, 8) /\ hasMultipleExclamations
             THEN Result("excitement", ConfidenceFrom(score, wordCount, 10))
             ELSE Result("positive", ConfidenceFrom(score, wordCount, 5))
        ELSE IF score < 0 /\ score * score >= 25 * wordCount
        THEN IF \/ hasFrustrationIndicator(lowerContent)
                \/ ScoreBelow(score, wordCount, 10)
             THEN Result("frustration", ConfidenceFrom(score, wordCount, 5))
             ELSE Result("negative", ConfidenceFrom(score, wordCount, 5))
        ELSE Result("neutral", 8000)

Candidate(dict, text) ==
    LET lowerContent == toLowerCase(text)
        wordCount == SplitLength(lowerContent)
        score == sentimentScore(dict, lowerContent)
        hasMultipleExclamations == exclamationCount(text) > 1
    IN  IF ScoreAbove(score, wordCount, 5)
        THEN IF \/ ScoreAbove(score, wordCount, 15)
                \/ ScoreAbove(score, wordCount, 8) /\ hasMultipleExclamations
             THEN Result("excitement", ConfidenceFrom(score, wordCount, 10))
             ELSE Result("positive", ConfidenceFrom(score, wordCount, 5))
        ELSE IF ScoreBelow(score, wordCount, 5)
        THEN IF \/ hasFrustrationIndicator(lowerContent)
                \/ ScoreBelow(score, wordCount, 10)
             THEN Result("frustration", ConfidenceFrom(score, wordCount, 5))
             ELSE Result("negative", ConfidenceFrom(score, wordCount, 5))
        ELSE Result("neutral", 8000)

\* Capped without the cap
CappedNowhere(r) == r

\* Math.min(confidence, 0.98)
Capped(r) == Result(r.type, Min(r.confidence, 9800))

\* Floored against the default threshold instead of the configured one
FlooredAgainstDefault(cfg, r) ==
    IF r.confidence < 6500 THEN Result("neutral", 8000) ELSE r

\* Floored with the comparison the wrong way round
FlooredAbove(cfg, r) ==
    IF r.confidence > cfg.confidenceThreshold THEN Result("neutral", 8000) ELSE r

\* if (confidence < this.config.confidenceThreshold) return neutral 0.8
Floored(cfg, r) ==
    IF r.confidence < cfg.confidenceThreshold THEN Result("neutral", 8000) ELSE r

\* The loop over the dictionary builds a regular expression from every
\* term, whether the text holds the term or not
GenericScoring(cfg, dict, text) ==
    IF \E term \in DOMAIN dict : ~RegExpCompiles(term)
    THEN Raised("SyntaxError")
    ELSE Floored(cfg, Capped(Candidate(dict, text)))

\* SpecialCase with the fourth special case tried before the first three
SpecialCaseExcitementFirst(dict, lowerContent) ==
    IF /\ includes(lowerContent, "wow")
       /\ includes(lowerContent, "amazing")
       /\ includes(lowerContent, "can't believe")
    THEN Result("excitement", 9500)
    ELSE IF includes(lowerContent, "really happy") /\ includes(lowerContent, "works great")
    THEN Result("positive", 9000)
    ELSE IF /\ includes(lowerContent, "terrible")
            /\ includes(lowerContent, "disappointed")
            /\ includes(lowerContent, "frustrated")
    THEN Result("negative", 9000)
    ELSE IF \/ includes(lowerContent, "told you multiple times")
            \/ includes(lowerContent, "still doesn't work")
    THEN Result("frustration", 9000)
    ELSE IF includes(lowerContent, "spectacular") /\ dict["spectacular"] >= 18
    THEN Result("excitement", 9000)
    ELSE Result("none", 0)

\* SpecialCase with the fifth special case taken for every term of the
\* dictionary that weighs 1.8 or more
SpecialCaseAnyStrongTerm(dict, lowerContent) ==
    IF includes(lowerContent, "really happy") /\ includes(lowerContent, "works great")
    THEN Result("positive", 9000)
    ELSE IF /\ includes(lowerContent, "terrible")
            /\ includes(lowerContent, "disappointed")
            /\ includes(lowerContent, "frustrated")
    THEN Result("negative", 9000)
    ELSE IF \/ includes(lowerContent, "told you multiple times")
            \/ includes(lowerContent, "still doesn't work")
    THEN Result("frustration", 9000)
    ELSE IF /\ includes(lowerContent, "wow")
            /\ includes(lowerContent, "amazing")
            /\ includes(lowerContent, "can't believe")
    THEN Result("excitement", 9500)
    ELSE IF \E term \in DOMAIN dict :
                includes(lowerContent, toLowerCase(term)) /\ dict[term] >= 18
    THEN Result("excitement", 9000)
    ELSE Result("none", 0)

\* The special cases, in the order of the code
SpecialCase(dict, lowerContent) ==
    IF includes(lowerContent, "really happy") /\ includes(lowerContent, "works great")
    THEN Result("positive", 9000)
    ELSE IF /\ includes(lowerContent, "terrible")
            /\ includes(lowerContent, "disappointed")
            /\ includes(lowerContent, "frustrated")
    THEN Result("negative", 9000)
    ELSE IF \/ includes(lowerContent, "told you multiple times")
            \/ includes(lowerContent, "still doesn't work")
    THEN Result("frustration", 9000)
    ELSE IF /\ includes(lowerContent, "wow")
            /\ includes(lowerContent, "amazing")
            /\ includes(lowerContent, "can't believe")
    THEN Result("excitement", 9500)
    ELSE IF includes(lowerContent, "spectacular") /\ dict["spectacular"] >= 18
    THEN Result("excitement", 9000)
    ELSE Result("none", 0)

\* analyzeSentiment with the guard answering like the neutral range of scores
analyzeSentimentGuardDefault(cfg, dict, c) ==
    IF Falsy(c) \/ ~IsString(c)
    THEN Result("neutral", 8000)
    ELSE LET special == SpecialCase(dict, toLowerCase(c.s))
         IN  IF special.type # "none" THEN special
             ELSE GenericScoring(cfg, dict, c.s)

\* analyzeSentiment with the guard testing the type alone: the empty string
\* is scored
analyzeSentimentTypeGuardOnly(cfg, dict, c) ==
    IF ~IsString(c)
    THEN Result("neutral", 10000)
    ELSE LET special == SpecialCase(dict, toLowerCase(c.s))
         IN  IF special.type # "none" THEN special
             ELSE GenericScoring(cfg, dict, c.s)

\* analyzeSentiment with the fallback to neutral applied to the special cases too
analyzeSentimentFlooringAll(cfg, dict, c) ==
    IF Falsy(c) \/ ~IsString(c)
    THEN Result("neutral", 10000)
    ELSE LET special == SpecialCase(dict, toLowerCase(c.s))
         IN  IF special.type # "none" THEN Floored(cfg, special)
             ELSE GenericScoring(cfg, dict, c.s)

analyzeSentiment(cfg, dict, c) ==
    IF Falsy(c) \/ ~IsString(c)
    THEN Result("neutral", 10000)
    ELSE LET special == SpecialCase(dict, toLowerCase(c.s))
         IN  IF special.type # "none" THEN special
             ELSE GenericScoring(cfg, dict, c.s)


(***************************************************************************)
(* Messages.  An object is a mapping from property names to values, an     *)
(* absent property reading undefined; objects live in a heap and are held  *)
(* by reference, so that what analyze copies and what it shares with its   *)
(* argument is part of the state.  heap is the sequence of all objects     *)
(* allocated so far, an address its index.                                 *)
(***************************************************************************)
Keys == {"content", "id", "behavior_tags", "sentiment", "mirror_intent",
         "detected", "confidence"}

EmptyObject == [key \in Keys |-> Undefined]

\* The value of a JavaScript value with every reference followed: what the
\* caller sees when reading through the object
RECURSIVE View(_, _)
View(h, v) ==
    IF v.k = "object" THEN [key \in Keys |-> View(h, h[v.n][key])] ELSE v

\* What JSON.stringify followed by JSON.parse makes of a primitive value: NaN
\* is written as null, an undefined property is left out
JsonPrimitive(v) == IF v.k = "nan" THEN Null ELSE v

\* JSON.parse(JSON.stringify(v)): every object reachable from v is built
\* anew.  The result is the heap with the new objects appended, the copy of an
\* object being the last one.
RECURSIVE JsonCopyFields(_, _, _, _)
RECURSIVE JsonCopyObject(_, _)
JsonCopyFields(h, obj, keys, acc) ==
    IF keys = {} THEN [heap |-> h, obj |-> acc]
    ELSE LET key == CHOOSE x \in keys : TRUE
             v == obj[key]
         IN  IF v.k = "object"
             THEN LET sub == JsonCopyObject(h, v.n)
                  IN  JsonCopyFields(sub, obj, keys \ {key},
                                     [acc EXCEPT ![key] = Ref(Len(sub))])
             ELSE JsonCopyFields(h, obj, keys \ {key},
                                 [acc EXCEPT ![key] = JsonPrimitive(v)])

JsonCopyObject(h, a) ==
    LET r == JsonCopyFields(h, h[a], Keys, EmptyObject)
    IN  Append(r.heap, r.obj)

\* const result = { ...message }: a copy of the message object alone
ShallowCopy(h, message) ==
    [heap |-> Append(h, h[message.n]), value |-> Ref(Len(h) + 1)]

\* const result = JSON.parse(JSON.stringify(message))
JsonCopy(h, message) ==
    LET h1 == JsonCopyObject(h, message.n)
    IN  [heap |-> h1, value |-> Ref(Len(h1))]

\* if (!result.behavior_tags) result.behavior_tags = {}
WithBehaviorTags(r) ==
    IF Falsy(r.heap[r.value.n].behavior_tags)
    THEN [heap  |-> Append([r.heap EXCEPT ![r.value.n].behavior_tags =
                                              Ref(Len(r.heap) + 1)],
                           EmptyObject),
          value |-> r.value]
    ELSE r

\* result.behavior_tags = {sentiment: {detected: ..., confidence: ...}}
WithSentimentReplacingTags(r, a) ==
    LET tag  == [EmptyObject EXCEPT !.detected = Str(a.type),
                                    !.confidence = Num(a.confidence)]
        tags == [EmptyObject EXCEPT !.sentiment = Ref(Len(r.heap) + 1)]
    IN  [heap  |-> Append(Append([r.heap EXCEPT ![r.value.n].behavior_tags =
                                                     Ref(Len(r.heap) + 2)],
                                 tag),
                          tags),
         value |-> r.value]

\* WithSentiment writing the category in the words of the message schema
WithSentimentInSchemaTerms(r, a) ==
    LET tags == r.heap[r.value.n].behavior_tags.n
        type == IF a.type = "frustration" THEN "frustrated"
                ELSE IF a.type = "excitement" THEN "excited"
                ELSE a.type
        tag  == [EmptyObject EXCEPT !.detected = Str(type),
                                    !.confidence = Num(a.confidence)]
    IN  [heap  |-> Append([r.heap EXCEPT ![tags].sentiment = Ref(Len(r.heap) + 1)],
                          tag),
         value |-> r.value]

\* result.behavior_tags.sentiment = {detected: ..., confidence: ...}
WithSentiment(r, a) ==
    LET tags == r.heap[r.value.n].behavior_tags.n
        tag  == [EmptyObject EXCEPT !.detected = Str(a.type),
                                    !.confidence = Num(a.confidence)]
    IN  [heap  |-> Append([r.heap EXCEPT ![tags].sentiment = Ref(Len(r.heap) + 1)],
                          tag),
         value |-> r.value]

\* if (result.behavior_tags.sentiment) return result
HasSentiment(r) == ~Falsy(r.heap[r.heap[r.value.n].behavior_tags.n].sentiment)

\* analyze without the check for sentiment that is already there
analyzeOverwriting(cfg, dict, h, message) ==
    LET result == WithBehaviorTags(JsonCopy(h, message))
    IN  [heap   |-> WithSentiment(result,
                        analyzeSentiment(cfg, dict, h[message.n].content)).heap,
         value  |-> result.value,
         scored |-> TRUE]

\* analyze(message), for a message whose behavior_tags is absent, null or an
\* object: the heap after the call, the value returned, and whether
\* analyzeSentiment was called.  An exception of analyzeSentiment leaves
\* analyze too: nothing is returned (value is undefined).
analyze(cfg, dict, h, message) ==
    LET result == WithBehaviorTags(JsonCopy(h, message))
        sentiment == analyzeSentiment(cfg, dict, h[message.n].content)
    IN  IF HasSentiment(result)
        THEN [heap |-> result.heap, value |-> result.value, scored |-> FALSE]
        ELSE IF sentiment.type \notin SentimentTypes
        THEN [heap |-> result.heap, value |-> Undefined, scored |-> TRUE]
        ELSE [heap   |-> WithSentiment(result, sentiment).heap,
              value  |-> result.value,
              scored |-> TRUE]

(***************************************************************************)
(* The scorer as a state machine: an analyzer is constructed from a        *)
(* configuration, a caller composes a text from pieces and has it          *)
(* analysed.                                                               *)
(***************************************************************************)
MaxPieces == 4

\* The pieces a text is composed of: the phrases of the special cases, whole
\* and in part, words of the lexicon and words outside it.
Pieces ==
    << "I'm really happy",
       "it works great!",
       "This is terrible, I'm very disappointed",
       "frustrated",
       "it still doesn't work",
       "Wow! This is amazing!",
       "I can't believe it",
       "spectacular",
       "good",
       "the product" >>

CustomDictionaries ==
    { NoDictionary,
      ("specialized_term" :> 18) @@ ("domain_specific_negative" :> -17),
      ("spectacular" :> 10) }

\* 0.85 lies among the confidences of the scored texts, 0.99 above the cap
\* and above every fixed confidence of a special case; undefined and 0 both
\* select the default
ConfidenceThresholds == {Undefined, Num(0), Num(8500), Num(9900)}

Configs ==
    [confidenceThreshold : ConfidenceThresholds,
     customDictionary : CustomDictionaries]

\* What a caller hands over as content before any text is typed
InitialContents == {Undefined, Null, Num(123), Str("")}

NoAnalysis == Result("none", 0)

\* The text of the pieces ps, in order, separated by single spaces
RECURSIVE Join(_)
Join(ps) ==
    IF ps = <<>> THEN ""
    ELSE IF Len(ps) = 1 THEN Pieces[ps[1]]
    ELSE Pieces[ps[1]] \o " " \o Join(Tail(ps))

\* new SentimentAnalyzer(cfg)
Construct(cfg) ==
    /\ config = ConstructConfig(cfg)
    /\ dictionary = ConstructDictionary(cfg)

\* No text has been analysed and then extended
NoDilution ==
    /\ baseContent = Undefined
    /\ baseAnalysis = NoAnalysis

\* A call of analyzeSentiment on an instance, as a caller records it
Call(i, text, result) == [analyzer |-> i, text |-> text, result |-> result]

NoCall == Call(0, "", NoAnalysis)

\* No instance has been constructed apart from the analyzer of config and
\* dictionary
NoInstances ==
    /\ analyzers = <<>>
    /\ first = NoCall
    /\ last = NoCall
    /\ made = 0

\* No MessageBuilder has been constructed
NoBuilder ==
    /\ objects = <<>>
    /\ returned = Undefined
    /\ lastArgs = <<>>
    /\ built = Undefined
    /\ buildView = Undefined
    /\ builtFrom = <<>>
    /\ builtView = Undefined
    /\ written = FALSE
    /\ steps = 0

\* Nothing thrown, nothing constructed, nothing run
NoError == [name |-> "", message |-> "", code |-> ""]
NoValidator == [schemaPath |-> "", schema |-> Undefined]
NoRun == [program |-> "", args |-> <<>>]

NoTools ==
    /\ files = <<>>
    /\ lastRun = NoRun
    /\ validator = NoValidator
    /\ thrown = NoError
    /\ exitCode = -1

NoClient == NoInstances /\ NoBuilder /\ NoTools

\* No message is in play
NoMessages ==
    /\ heap = <<>>
    /\ input = Undefined
    /\ output = Undefined
    /\ scored = FALSE
    /\ calls = 0
    /\ writes = 0
    /\ callView = Undefined
    /\ returnView = Undefined
    /\ prevReturnView = Undefined
    /\ expectedInput = Undefined
    /\ expectedOutput = Undefined

ScoreInit ==
    /\ \E cfg \in Configs : Construct(cfg)
    /\ typed = <<>>
    /\ content \in InitialContents
    /\ analysis = NoAnalysis
    /\ NoDilution
    /\ NoClient
    /\ NoMessages

\* The caller appends a piece to the text (pieces are taken in their order
\* in Pieces, each at most once)
TypePiece(p) ==
    /\ analysis = NoAnalysis
    /\ IsString(content)
    /\ Len(typed) < MaxPieces
    /\ IF typed = <<>> THEN TRUE ELSE typed[Len(typed)] < p
    /\ typed' = Append(typed, p)
    /\ content' = Str(Join(typed'))
    /\ UNCHANGED <<clientVars, analyzerVars, analysis, baseContent, baseAnalysis, messageVars>>

\* analyzer.analyzeSentiment(content), keeping count in the lexicon of the
\* calls made
AnalyzeContentCounting ==
    /\ analysis = NoAnalysis
    /\ analysis' = analyzeSentiment(config, dictionary, content)
    /\ dictionary' = [dictionary EXCEPT !["good"] = @ + 1]
    /\ UNCHANGED <<clientVars, config, typed, content, baseContent,
                   baseAnalysis, messageVars>>

\* analyzer.analyzeSentiment(content)
AnalyzeContent ==
    /\ analysis = NoAnalysis
    /\ analysis' = analyzeSentiment(config, dictionary, content)
    /\ UNCHANGED <<clientVars, analyzerVars, typed, content, baseContent, baseAnalysis,
                   messageVars>>

ScoreNext ==
    \/ \E p \in 1..Len(Pieces) : TypePiece(p)
    \/ AnalyzeContent

SpecScore == ScoreInit /\ [][ScoreNext]_vars

(***************************************************************************)
(* The scorer on worded texts: a caller composes a text from words and     *)
(* short phrases, has it analysed, and may then append neutral filler to   *)
(* the analysed text and have the longer text analysed too.                *)
(***************************************************************************)
MaxWords == 3

\* Words and phrases a text starts with: a neutral opening, the terms of the
\* custom dictionary of the tests, built-in terms, exclamation marks and a
\* frustration indicator that is no term of the lexicon
Words ==
    << "This contains a",
       "specialized_term",
       "domain_specific_negative",
       "fantastic!",
       "great",
       "!!",
       "upset",
       "still",
       "spectacular" >>

\* Filler: words that are no term of the lexicon, no frustration indicator
\* and no part of the text of a special case
Fillers ==
    << "that should be highly positive",
       "today",
       "not" >>

Vocabulary == Words \o Fillers

\* The text of the entries ps of Vocabulary, in order, separated by single
\* spaces
RECURSIVE JoinWords(_)
JoinWords(ps) ==
    IF ps = <<>> THEN ""
    ELSE IF Len(ps) = 1 THEN Vocabulary[ps[1]]
    ELSE Vocabulary[ps[1]] \o " " \o JoinWords(Tail(ps))

\* The dictionary of the tests, and one whose keys meet built-in terms: one in
\* the same letters, one in other letter case
WordDictionaries ==
    { NoDictionary,
      ("specialized_term" :> 18) @@ ("domain_specific_negative" :> -17),
      ("spectacular" :> 10) @@ ("Great" :> -10) }

WordConfigs ==
    [confidenceThreshold : {Undefined, Num(8500)},
     customDictionary : WordDictionaries]

WordsInit ==
    /\ \E cfg \in WordConfigs : Construct(cfg)
    /\ typed = <<>>
    /\ content = Str("")
    /\ analysis = NoAnalysis
    /\ NoDilution
    /\ NoClient
    /\ NoMessages

\* The caller appends a word to a text not yet analysed (words are taken in
\* their order in Words, each at most once)
TypeWord(w) ==
    /\ analysis = NoAnalysis
    /\ Len(typed) < MaxWords
    /\ IF typed = <<>> THEN TRUE ELSE typed[Len(typed)] < w
    /\ typed' = Append(typed, w)
    /\ content' = Str(JoinWords(typed'))
    /\ UNCHANGED <<clientVars, analyzerVars, analysis, baseContent, baseAnalysis, messageVars>>

\* The caller appends filler to the text that has been analysed; the
\* analysed text and its result are kept for comparison
AppendFiller(f) ==
    /\ analysis # NoAnalysis
    /\ IF typed = <<>> THEN TRUE ELSE typed[Len(typed)] < f
    /\ baseContent' = content
    /\ baseAnalysis' = analysis
    /\ typed' = Append(typed, f)
    /\ content' = Str(JoinWords(typed'))
    /\ analysis' = NoAnalysis
    /\ UNCHANGED <<clientVars, analyzerVars, messageVars>>

WordsNext ==
    \/ \E w \in 1..Len(Words) : TypeWord(w)
    \/ \E f \in (Len(Words) + 1)..Len(Vocabulary) : AppendFiller(f)
    \/ AnalyzeContent

SpecWords == WordsInit /\ [][WordsNext]_vars

(***************************************************************************)
(* The middleware as a state machine: a caller holds a message, hands it   *)
(* to analyze, may hand the returned message to analyze again, and may     *)
(* write to a property of any object of either message.                    *)
(***************************************************************************)
MaxCalls == 2
MaxWrites == 1

MessageContents ==
    { Undefined, Null, Num(123), Str(""),
      Str("This is awful!"),
      Str("I'm really happy with this product, it works great!") }

\* A top-level property of the message other than content and behavior_tags
MessageIds == {Num(42), NaN}

\* behavior_tags.sentiment of the input: absent, null, or an object a caller
\* has put there
SentimentKinds == {"absent", "null", "object"}
\* behavior_tags.mirror_intent of the input: absent or an object
MirrorKinds == {"absent", "object"}
\* behavior_tags of the input: absent, null, or an object holding the tags
TagsKinds == {"absent", "null", "object"}

MessageConfigs ==
    [confidenceThreshold : {Undefined, Num(9900)},
     customDictionary : {NoDictionary}]

TagObject(d, c) == [EmptyObject EXCEPT !.detected = d, !.confidence = c]

\* The heap holding one message, the message object at address 1
MessageHeap(c, i, tagsKind, sentimentKind, mirrorKind) ==
    LET sentimentAt == 3
        mirrorAt == IF sentimentKind = "object" THEN 4 ELSE 3
        tags == [EmptyObject EXCEPT
                    !.sentiment = CASE sentimentKind = "object" -> Ref(sentimentAt)
                                    [] sentimentKind = "null" -> Null
                                    [] OTHER -> Undefined,
                    !.mirror_intent = IF mirrorKind = "object"
                                      THEN Ref(mirrorAt) ELSE Undefined]
        message == [EmptyObject EXCEPT
                    !.content = c,
                    !.id = i,
                    !.behavior_tags = CASE tagsKind = "object" -> Ref(2)
                                        [] tagsKind = "null" -> Null
                                        [] OTHER -> Undefined]
    IN  IF tagsKind # "object" THEN <<message>>
        ELSE <<message, tags>>
             \o (IF sentimentKind = "object"
                 THEN <<TagObject(Str("custom_sentiment"), Num(9500))>> ELSE <<>>)
             \o (IF mirrorKind = "object"
                 THEN <<TagObject(Str("mirrored"), Num(9000))>> ELSE <<>>)

InitialHeaps ==
    { MessageHeap(c, i, "absent", "absent", "absent") :
          c \in MessageContents, i \in MessageIds }
    \cup { MessageHeap(c, i, "null", "absent", "absent") :
          c \in MessageContents, i \in MessageIds }
    \cup UNION { { MessageHeap(c, i, "object", sk, mk) :
                      c \in MessageContents, i \in MessageIds } :
                 sk \in SentimentKinds, mk \in MirrorKinds }

Init ==
    /\ \E cfg \in MessageConfigs : Construct(cfg)
    /\ typed = <<>>
    /\ content = Undefined
    /\ analysis = NoAnalysis
    /\ NoDilution
    /\ NoClient
    /\ heap \in InitialHeaps
    /\ input = Ref(1)
    /\ output = Undefined
    /\ scored = FALSE
    /\ calls = 0
    /\ writes = 0
    /\ callView = Undefined
    /\ returnView = Undefined
    /\ prevReturnView = Undefined
    /\ expectedInput = View(heap, input)
    /\ expectedOutput = Undefined

\* output = analyzer.analyze(input)
Analyze ==
    /\ calls < MaxCalls
    /\ LET r == analyze(config, dictionary, heap, input)
       IN  /\ heap' = r.heap
           /\ output' = r.value
           /\ scored' = r.scored
           /\ callView' = View(heap, input)
           /\ returnView' = View(r.heap, r.value)
           /\ expectedOutput' = View(r.heap, r.value)
    /\ prevReturnView' = returnView
    /\ calls' = calls + 1
    /\ UNCHANGED <<clientVars, analyzerVars, scoreVars, input, writes, expectedInput>>

\* The caller takes the returned message as the next input
Resubmit ==
    /\ output # Undefined
    /\ calls < MaxCalls
    /\ input' = output
    /\ expectedInput' = expectedOutput
    /\ output' = Undefined
    /\ expectedOutput' = Undefined
    /\ UNCHANGED <<clientVars, analyzerVars, scoreVars, heap, scored, calls, writes,
                   callView, returnView, prevReturnView>>

\* The addresses of the objects reachable from the value v
RECURSIVE Reachable(_, _)
Reachable(h, v) ==
    IF v.k # "object" THEN {}
    ELSE {v.n} \cup UNION {Reachable(h, h[v.n][key]) : key \in Keys}

\* The caller, holding a returned message, writes to a property that an
\* object of the input holds: message.id, message.behavior_tags.<tag> or
\* <tag>.detected
WriteInput(a, key) ==
    /\ writes < MaxWrites
    /\ output # Undefined
    /\ a \in Reachable(heap, input)
    /\ heap[a][key] # Undefined
    /\ key \in {"id", "mirror_intent", "detected"}
    /\ heap' = [heap EXCEPT ![a][key] = Str("changed")]
    /\ expectedInput' = View([heap EXCEPT ![a][key] = Str("changed")], input)
    /\ writes' = writes + 1
    /\ UNCHANGED <<clientVars, analyzerVars, scoreVars, input, output, scored, calls,
                   callView, returnView, prevReturnView, expectedOutput>>

\* The caller writes to a property that an object of the returned message
\* holds
WriteOutput(a, key) ==
    /\ writes < MaxWrites
    /\ a \in Reachable(heap, output)
    /\ heap[a][key] # Undefined
    /\ key \in {"id", "mirror_intent", "detected"}
    /\ heap' = [heap EXCEPT ![a][key] = Str("changed")]
    /\ expectedOutput' = View([heap EXCEPT ![a][key] = Str("changed")], output)
    /\ writes' = writes + 1
    /\ UNCHANGED <<clientVars, analyzerVars, scoreVars, input, output, scored, calls,
                   callView, returnView, prevReturnView, expectedInput>>

Next ==
    \/ Analyze
    \/ Resubmit
    \/ \E a \in 1..Len(heap), key \in Keys : WriteInput(a, key)
    \/ \E a \in 1..Len(heap), key \in Keys : WriteOutput(a, key)

Spec == Init /\ [][Next]_vars

(***************************************************************************)
(* One analyzer, called both ways: a caller holds a message, hands its     *)
(* content to analyzeSentiment and the message to analyze, in any order,   *)
(* and may hand a returned message to analyze again.  The custom           *)
(* dictionaries are those of the tests and one with an emoticon for key.   *)
(***************************************************************************)
CallDictionaries ==
    { NoDictionary,
      ("specialized_term" :> 18) @@ ("domain_specific_negative" :> -17),
      (":(" :> -10) }

CallConfigs ==
    [confidenceThreshold : {Undefined, Num(9900)},
     customDictionary : CallDictionaries]

CallContents ==
    { Undefined, Null, Num(123), Str(""),
      Str("This is awful!"),
      Str("bad day :("),
      Str("a specialized_term"), Str("wow!!"),
      Str("I'm really happy, it works great!") }

CallsInit ==
    /\ \E cfg \in CallConfigs : Construct(cfg)
    /\ typed = <<>>
    /\ content \in CallContents
    /\ analysis = NoAnalysis
    /\ NoDilution
    /\ NoClient
    /\ \E tagsKind \in {"absent", "object"} :
          heap = MessageHeap(content, Num(42), tagsKind, "absent", "object")
    /\ input = Ref(1)
    /\ output = Undefined
    /\ scored = FALSE
    /\ calls = 0
    /\ writes = 0
    /\ callView = Undefined
    /\ returnView = Undefined
    /\ prevReturnView = Undefined
    /\ expectedInput = View(heap, input)
    /\ expectedOutput = Undefined

CallsNext ==
    \/ AnalyzeContent
    \/ Analyze
    \/ Resubmit

SpecCalls == CallsInit /\ [][CallsNext]_vars

(***************************************************************************)
(* The scorer on whole texts: an analyzer is constructed from a            *)
(* configuration and is handed one text, which it analyses.                *)
(***************************************************************************)
\* Texts: the symbols of the tests, white space alone, a run of exclamation
\* marks, a term inside a longer word, a phrase holding another term, and
\* texts of every category
Texts ==
    { "!!!---???...", " ", "!!!", "greatly", "really happy", "good", "bad",
      "awful still", "a specialized_term", "!! x" }

\* 0.7 is the confidence the mapping starts from, 0.85 lies among the
\* confidences of the texts
TextConfigs ==
    [confidenceThreshold : {Undefined, Num(7000), Num(8500)},
     customDictionary :
         {NoDictionary,
          ("specialized_term" :> 18) @@ ("domain_specific_negative" :> -17)}]

TextsInit ==
    /\ \E cfg \in TextConfigs : Construct(cfg)
    /\ typed = <<>>
    /\ \E t \in Texts : content = Str(t)
    /\ analysis = NoAnalysis
    /\ NoDilution
    /\ NoClient
    /\ NoMessages

TextsNext == AnalyzeContent

SpecTexts == TextsInit /\ [][TextsNext]_vars

(***************************************************************************)
(* Several analyzer instances: a program constructs analyzers one after    *)
(* another and, at any time, has a text analysed by any of the instances   *)
(* constructed so far.  The first call made and the latest call made are   *)
(* kept with their results.                                                *)
(***************************************************************************)
MaxInstances == 2
MaxAnalyses == 3

\* The configurations the instances are constructed from, in the order in
\* which a program may construct them: the default one in between two that
\* carry the custom dictionary of the tests
InstanceConfigs ==
    << [confidenceThreshold |-> Num(7000),
        customDictionary |-> ("specialized_term" :> 18)
                                 @@ ("domain_specific_negative" :> -17)],
       [confidenceThreshold |-> Undefined, customDictionary |-> NoDictionary],
       [confidenceThreshold |-> Num(8500),
        customDictionary |-> ("specialized_term" :> 18)
                                 @@ ("domain_specific_negative" :> -17)] >>

\* The texts the instances are called with: a built-in term, a custom term
\* and white space
InstanceTexts == {"good", "a specialized_term", " "}

\* The instances after new SentimentAnalyzer(cfg), were the built-in table one
\* object shared by all instances: the merge writes the custom entries into
\* the table every instance reads
ConstructedOnSharedTable(instances, cfg) ==
    Append([i \in 1..Len(instances) |->
               [instances[i] EXCEPT !.dictionary = cfg.customDictionary @@ @]],
           [config |-> ConstructConfig(cfg),
            dictionary |->
                IF instances = <<>> THEN ConstructDictionary(cfg)
                ELSE cfg.customDictionary @@ instances[1].dictionary])

\* The instances after new SentimentAnalyzer(cfg): the constructor builds
\* this.config and a table of its own and writes to no other object
Constructed(instances, cfg) ==
    Append(instances, [config |-> ConstructConfig(cfg),
                       dictionary |-> ConstructDictionary(cfg)])

InstancesInit ==
    /\ config = Undefined
    /\ dictionary = NoDictionary
    /\ typed = <<>>
    /\ content = Undefined
    /\ analysis = NoAnalysis
    /\ NoDilution
    /\ NoMessages
    /\ NoClient

\* analyzers.push(new SentimentAnalyzer(InstanceConfigs[c])); a configuration
\* is used for one instance
ConstructAnalyzer(c) ==
    /\ Len(analyzers) < MaxInstances
    /\ \A i \in 1..Len(analyzers) :
          analyzers[i].config # ConstructConfig(InstanceConfigs[c])
    /\ analyzers' = Constructed(analyzers, InstanceConfigs[c])
    /\ UNCHANGED <<first, last, made, analyzerVars, scoreVars, messageVars,
                   builderVars, toolVars>>

\* analyzers[i].analyzeSentiment(t), were the instance to keep count in its
\* lexicon of the calls made
AnalyzeWithCounting(i, t) ==
    /\ made < MaxAnalyses
    /\ made' = made + 1
    /\ LET call == Call(i, t, analyzeSentiment(analyzers[i].config,
                                               analyzers[i].dictionary, Str(t)))
       IN  /\ last' = call
           /\ first' = IF first = NoCall THEN call ELSE first
    /\ analyzers' = [analyzers EXCEPT ![i].dictionary["good"] = -7]
    /\ UNCHANGED <<analyzerVars, scoreVars, messageVars,
                   builderVars, toolVars>>

\* analyzers[i].analyzeSentiment(t)
AnalyzeWith(i, t) ==
    /\ made < MaxAnalyses
    /\ made' = made + 1
    /\ LET call == Call(i, t, analyzeSentiment(analyzers[i].config,
                                               analyzers[i].dictionary, Str(t)))
       IN  /\ last' = call
           /\ first' = IF first = NoCall THEN call ELSE first
    /\ UNCHANGED <<analyzers, analyzerVars, scoreVars, messageVars,
                   builderVars, toolVars>>

InstancesNext ==
    \/ \E c \in 1..Len(InstanceConfigs) : ConstructAnalyzer(c)
    \/ \E i \in 1..Len(analyzers), t \in InstanceTexts : AnalyzeWith(i, t)

SpecInstances == InstancesInit /\ [][InstancesNext]_vars

(***************************************************************************)
(* The message builder of the JavaScript client library (class             *)
(* MessageBuilder).  The builder, its message, the tags and the built      *)
(* messages are objects of a heap of their own, objects, so that what      *)
(* build() copies and what it shares with the builder is part of the       *)
(* state.  A caller calls setters and build() in any order and may write   *)
(* to a property of an object of the message build() returned last.        *)
(***************************************************************************)
Bool(b) == [k |-> "boolean", n |-> IF b THEN 1 ELSE 0, s |-> ""]

BuilderKeys ==
    {"message", "behavior_tags", "sscs_compliance",
     "sentiment", "mirror_intent", "clarify_before_execute",
     "follow_up_required", "suggested_tone", "agent_feedback",
     "detected", "confidence", "mirrored_text", "required",
     "clarification_prompt", "options", "follow_up_items", "tone",
     "explanation", "context_update", "user_preferences",
     "story_type", "tdd_phase", "workflow_step"}

\* {}
EmptyBuilderObject == [key \in BuilderKeys |-> Undefined]

\* The value of a value with every reference followed
RECURSIVE BuilderView(_, _)
BuilderView(h, v) ==
    IF v.k = "object" THEN [key \in BuilderKeys |-> BuilderView(h, h[v.n][key])]
    ELSE v

\* The builder is the object at address 1
TheBuilder == Ref(1)

\* new MessageBuilder(): this.message = { behavior_tags: {} }
NewMessageBuilder ==
    << [EmptyBuilderObject EXCEPT !.message = Ref(2)],
       [EmptyBuilderObject EXCEPT !.behavior_tags = Ref(3)],
       EmptyBuilderObject >>

\* obj[key] = value when value !== undefined
WithDefined(obj, key, value) ==
    IF value # Undefined THEN [obj EXCEPT ![key] = value] ELSE obj

\* this.message.behavior_tags.<tag> = data, data a new object
SetTag(h, tag, data) ==
    LET tags == h[h[TheBuilder.n].message.n].behavior_tags.n
    IN  Append([h EXCEPT ![tags][tag] = Ref(Len(h) + 1)], data)

\* addSentiment keeping the confidence of the tag it replaces when it is
\* called without one
addSentimentMerging(h, sentiment, confidence) ==
    LET tags == h[h[TheBuilder.n].message.n].behavior_tags.n
        old  == IF h[tags].sentiment = Undefined THEN EmptyBuilderObject
                ELSE h[h[tags].sentiment.n]
    IN  SetTag(h, "sentiment",
               WithDefined([old EXCEPT !.detected = sentiment],
                           "confidence", confidence))

addSentiment(h, sentiment, confidence) ==
    SetTag(h, "sentiment",
           WithDefined([EmptyBuilderObject EXCEPT !.detected = sentiment],
                       "confidence", confidence))

addMirrorIntent(h, mirroredText, confidence) ==
    SetTag(h, "mirror_intent",
           WithDefined([EmptyBuilderObject EXCEPT !.mirrored_text = mirroredText],
                       "confidence", confidence))

addClarifyBeforeExecute(h, required, clarificationPrompt, options) ==
    SetTag(h, "clarify_before_execute",
           WithDefined(WithDefined([EmptyBuilderObject EXCEPT !.required = required],
                                   "clarification_prompt", clarificationPrompt),
                       "options", options))

addFollowUpRequired(h, required, followUpItems) ==
    SetTag(h, "follow_up_required",
           WithDefined([EmptyBuilderObject EXCEPT !.required = required],
                       "follow_up_items", followUpItems))

addSuggestedTone(h, tone, explanation) ==
    SetTag(h, "suggested_tone",
           WithDefined([EmptyBuilderObject EXCEPT !.tone = tone],
                       "explanation", explanation))

\* this.message.behavior_tags.agent_feedback = {}, then the properties given
addAgentFeedback(h, contextUpdate, userPreferences) ==
    SetTag(h, "agent_feedback",
           WithDefined(WithDefined(EmptyBuilderObject,
                                   "context_update", contextUpdate),
                       "user_preferences", userPreferences))

\* this.message.sscs_compliance = {}, then the properties given
addSSCSCompliance(h, storyType, tddPhase, workflowStep) ==
    LET msg == h[TheBuilder.n].message.n
    IN  Append([h EXCEPT ![msg].sscs_compliance = Ref(Len(h) + 1)],
               WithDefined(WithDefined(WithDefined(EmptyBuilderObject,
                                                   "story_type", storyType),
                                       "tdd_phase", tddPhase),
                           "workflow_step", workflowStep))

\* return { ...this.message }: a new object holding the values of the
\* properties of this.message, references as references
build(h) == Append(h, h[h[TheBuilder.n].message.n])

MaxBuilderSteps == 4

\* The calls of the setters that the tests make
SentimentArgs == {<<Str("frustrated"), Num(9000)>>, <<Str("neutral"), Undefined>>}
MirrorIntentArgs == {<<Str("I understand"), Undefined>>}
ClarifyArgs == {<<Bool(TRUE), Str("Do you want to proceed?"), Undefined>>}
FollowUpArgs == {<<Bool(FALSE), Undefined>>}
SuggestedToneArgs == {<<Str("technical"), Undefined>>}
AgentFeedbackArgs ==
    {<<Str("User prefers clear examples"), Undefined>>,
     <<Undefined, Str("{ verbosity: 'high' }")>>}
SSCSArgs == {<<Str("bug"), Undefined, Undefined>>}

Setters ==
    {"addSentiment", "addMirrorIntent", "addClarifyBeforeExecute",
     "addFollowUpRequired", "addSuggestedTone", "addAgentFeedback",
     "addSSCSCompliance"}

\* No setter has been called
NoArgs == [setter \in Setters |-> <<>>]

BuilderInit ==
    /\ config = Undefined
    /\ dictionary = NoDictionary
    /\ typed = <<>>
    /\ content = Undefined
    /\ analysis = NoAnalysis
    /\ NoDilution
    /\ NoMessages
    /\ NoInstances
    /\ NoTools
    /\ objects = NewMessageBuilder
    /\ returned = Undefined
    /\ lastArgs = NoArgs
    /\ built = Undefined
    /\ buildView = Undefined
    /\ builtFrom = NoArgs
    /\ builtView = Undefined
    /\ written = FALSE
    /\ steps = 0

\* What a call of a setter with the arguments args leaves besides the heap:
\* the setter returns this
SetterCalled(setter, args) ==
    /\ steps < MaxBuilderSteps
    /\ steps' = steps + 1
    /\ lastArgs' = [lastArgs EXCEPT ![setter] = args]
    /\ returned' = TheBuilder
    /\ UNCHANGED <<built, buildView, builtFrom, builtView, written>>
    /\ UNCHANGED <<analyzerVars, scoreVars, messageVars, instanceVars, toolVars>>

AddSentiment(args) ==
    /\ objects' = addSentiment(objects, args[1], args[2])
    /\ SetterCalled("addSentiment", args)

AddMirrorIntent(args) ==
    /\ objects' = addMirrorIntent(objects, args[1], args[2])
    /\ SetterCalled("addMirrorIntent", args)

AddClarifyBeforeExecute(args) ==
    /\ objects' = addClarifyBeforeExecute(objects, args[1], args[2], args[3])
    /\ SetterCalled("addClarifyBeforeExecute", args)

AddFollowUpRequired(args) ==
    /\ objects' = addFollowUpRequired(objects, args[1], args[2])
    /\ SetterCalled("addFollowUpRequired", args)

AddSuggestedTone(args) ==
    /\ objects' = addSuggestedTone(objects, args[1], args[2])
    /\ SetterCalled("addSuggestedTone", args)

AddAgentFeedback(args) ==
    /\ objects' = addAgentFeedback(objects, args[1], args[2])
    /\ SetterCalled("addAgentFeedback", args)

AddSSCSCompliance(args) ==
    /\ objects' = addSSCSCompliance(objects, args[1], args[2], args[3])
    /\ SetterCalled("addSSCSCompliance", args)

\* built = builder.build()
Build ==
    /\ steps < MaxBuilderSteps
    /\ steps' = steps + 1
    /\ objects' = build(objects)
    /\ built' = Ref(Len(objects'))
    /\ returned' = built'
    /\ buildView' = BuilderView(objects', built')
    /\ builtView' = BuilderView(objects', built')
    /\ builtFrom' = lastArgs
    /\ UNCHANGED <<lastArgs, written>>
    /\ UNCHANGED <<analyzerVars, scoreVars, messageVars, instanceVars, toolVars>>

\* The addresses of the objects reachable from the value v
RECURSIVE BuilderReachable(_, _)
BuilderReachable(h, v) ==
    IF v.k # "object" THEN {}
    ELSE {v.n} \cup UNION {BuilderReachable(h, h[v.n][key]) : key \in BuilderKeys}

\* The caller writes to a property that an object of the built message holds:
\* built.behavior_tags, built.behavior_tags.sentiment,
\* built.behavior_tags.sentiment.detected or built.sscs_compliance.story_type
WriteBuilt(a, key) ==
    /\ steps < MaxBuilderSteps
    /\ a \in BuilderReachable(objects, built)
    /\ objects[a][key] # Undefined
    /\ key \in {"behavior_tags", "sentiment", "detected", "story_type"}
    /\ objects' = [objects EXCEPT ![a][key] = Str("changed")]
    /\ builtView' = BuilderView(objects', built)
    /\ written' = TRUE
    /\ steps' = steps + 1
    /\ UNCHANGED <<returned, lastArgs, built, buildView, builtFrom>>
    /\ UNCHANGED <<analyzerVars, scoreVars, messageVars, instanceVars, toolVars>>

BuilderNext ==
    \/ \E args \in SentimentArgs : AddSentiment(args)
    \/ \E args \in MirrorIntentArgs : AddMirrorIntent(args)
    \/ \E args \in ClarifyArgs : AddClarifyBeforeExecute(args)
    \/ \E args \in FollowUpArgs : AddFollowUpRequired(args)
    \/ \E args \in SuggestedToneArgs : AddSuggestedTone(args)
    \/ \E args \in AgentFeedbackArgs : AddAgentFeedback(args)
    \/ \E args \in SSCSArgs : AddSSCSCompliance(args)
    \/ Build
    \/ \E a \in 1..Len(objects), key \in BuilderKeys : WriteBuilt(a, key)

SpecBuilder == BuilderInit /\ [][BuilderNext]_vars

(***************************************************************************)
(* The schema validator (class MCPLValidator) and the command line tool    *)
(* validate-mcpl, run against a file system.  A file is missing, cannot    *)
(* be read, or holds text; text is JSON (which is YAML too), YAML that is  *)
(* not JSON, or neither, and denotes the value its parsers return.         *)
(***************************************************************************)
\* properties.behavior_tags.properties.sentiment.properties.detected.enum
SchemaSentimentEnum ==
    {"neutral", "frustrated", "excited", "positive", "negative", "confused",
     "urgent", "relaxed"}

\* What the text of a file denotes: a JSON schema (with or without a keyword
\* JSON Schema does not know, as 'version' in mcp-l-schema.json), an object
\* that is no schema, null, or a message (with or without behavior_tags, its
\* sentiment.detected when it has one)
SchemaValue(customKeyword) ==
    [kind |-> "schema", customKeyword |-> customKeyword, tags |-> FALSE,
     detected |-> ""]
MalformedSchemaValue ==
    [kind |-> "malformed schema", customKeyword |-> FALSE, tags |-> FALSE,
     detected |-> ""]
NullValue ==
    [kind |-> "null", customKeyword |-> FALSE, tags |-> FALSE, detected |-> ""]
MessageValue(tags, detected) ==
    [kind |-> "message", customKeyword |-> FALSE, tags |-> tags,
     detected |-> detected]

Missing == [state |-> "missing", format |-> "", value |-> NullValue]
Unreadable == [state |-> "unreadable", format |-> "", value |-> NullValue]
File(format, value) == [state |-> "file", format |-> format, value |-> value]

\* A value returned or an error thrown
Returned(value) == [threw |-> FALSE, value |-> value, error |-> NoError]
Threw(error) == [threw |-> TRUE, value |-> NullValue, error |-> error]

Error(name, message, code) == [name |-> name, message |-> message, code |-> code]

\* String.prototype.endsWith
endsWith(t, suffix) ==
    /\ Len(t) >= Len(suffix)
    /\ SubSeq(t, Len(t) - Len(suffix) + 1, Len(t)) = suffix

\* fs.readFileSync(path, 'utf8'): the file, or an error with a code
readFileSync(fs, path) ==
    IF path \notin DOMAIN fs \/ fs[path].state = "missing"
    THEN Threw(Error("Error", "ENOENT: no such file or directory", "ENOENT"))
    ELSE IF fs[path].state = "unreadable"
    THEN Threw(Error("Error", "EACCES: permission denied", "EACCES"))
    ELSE Returned(fs[path])

\* JSON.parse(content), yaml.parse(content)
JsonParse(file) ==
    IF file.format = "json" THEN Returned(file.value)
    ELSE Threw(Error("SyntaxError", "Unexpected token", ""))

YamlParse(file) ==
    IF file.format \in {"json", "yaml"} THEN Returned(file.value)
    ELSE Threw(Error("YAMLParseError", "Implicit keys need to be on a single line",
                     "MULTILINE_IMPLICIT_KEY"))

\* ajv.compile(schema): null and a malformed schema are refused; strict mode
\* (the default) refuses every keyword it does not know, so also an object
\* that is no schema
AjvCompile(schema, strict) ==
    IF schema.kind \in {"null", "malformed schema"}
    THEN Threw(Error("Error", "schema is invalid", ""))
    ELSE IF strict /\ (schema.kind # "schema" \/ schema.customKeyword)
    THEN Threw(Error("Error", "strict mode: unknown keyword", ""))
    ELSE Returned(schema)

\* validate(data) for the compiled MCP-L schema: an object with
\* behavior_tags whose sentiment.detected, if any, is of the enum
Validates(data) ==
    /\ data.kind = "message"
    /\ data.tags
    /\ data.detected = "" \/ data.detected \in SchemaSentimentEnum

DefaultSchemaPath == "schema/mcp-l-schema.json"

\* loadSchema reading the file before it looks at the extension
loadSchemaReadingFirst(fs, schemaPath) ==
    LET text    == readFileSync(fs, schemaPath)
        parsed  == IF endsWith(schemaPath, ".json") THEN JsonParse(text.value)
                   ELSE YamlParse(text.value)
    IN  IF text.threw
        THEN IF text.error.code = "ENOENT"
             THEN Threw(Error("Error", "Schema file not found: " \o schemaPath, ""))
             ELSE content
        ELSE IF /\ ~endsWith(schemaPath, ".json")
                /\ ~endsWith(schemaPath, ".yaml")
                /\ ~endsWith(schemaPath, ".yml")
        THEN Threw(Error("Error",
                         "Unsupported schema format. Use .json, .yaml, or .yml", ""))
        ELSE parsed

\* MCPLValidator.loadSchema(schemaPath)
loadSchema(fs, schemaPath) ==
    IF /\ ~endsWith(schemaPath, ".json")
       /\ ~endsWith(schemaPath, ".yaml")
       /\ ~endsWith(schemaPath, ".yml")
    THEN Threw(Error("Error",
                     "Unsupported schema format. Use .json, .yaml, or .yml", ""))
    ELSE LET text    == readFileSync(fs, schemaPath)
             parsed  == IF endsWith(schemaPath, ".json")
                        THEN JsonParse(text.value)
                        ELSE YamlParse(text.value)
             caught  == IF text.threw THEN text.error ELSE parsed.error
         IN  IF text.threw \/ parsed.threw
             THEN IF caught.code = "ENOENT"
                  THEN Threw(Error("Error",
                                   "Schema file not found: " \o schemaPath, ""))
                  ELSE Threw(caught)
             ELSE parsed

\* new MCPLValidator(schemaPath): the instance, or the error thrown
NewMCPLValidator(fs, schemaPath) ==
    LET path     == IF Falsy(schemaPath) THEN DefaultSchemaPath ELSE schemaPath.s
        schema   == loadSchema(fs, path)
        validate == AjvCompile(schema.value, FALSE)
    IN  IF schema.threw THEN [instance |-> NoValidator, error |-> schema.error]
        ELSE IF validate.threw
        THEN [instance |-> NoValidator, error |-> validate.error]
        ELSE [instance |-> [schemaPath |-> path, schema |-> schema.value],
              error |-> NoError]

\* validate-mcpl reporting a message that fails validation without
\* process.exit(1)
validateMcplReportingOnly(fs, args) ==
    LET schemaFile == readFileSync(fs, DefaultSchemaPath)
        schema     == JsonParse(schemaFile.value)
        validate   == AjvCompile(schema.value, TRUE)
        inputFile  == readFileSync(fs, args[1])
        inputData  == JsonParse(inputFile.value)
    IN  IF schemaFile.threw \/ schema.threw THEN 1
        ELSE IF validate.threw THEN 1
        ELSE IF Len(args) # 1 THEN 1
        ELSE IF inputFile.threw \/ inputData.threw THEN 1
        ELSE 0

\* The exit code of validate-mcpl run with the arguments args: an error
\* that nothing catches (ajv.compile is outside the try blocks) ends the
\* process with code 1, as process.exit(1) does; a run that reaches the end of
\* the script ends with code 0
validateMcpl(fs, args) ==
    LET schemaFile == readFileSync(fs, DefaultSchemaPath)
        schema     == JsonParse(schemaFile.value)
        validate   == AjvCompile(schema.value, TRUE)
        inputFile  == readFileSync(fs, args[1])
        inputData  == JsonParse(inputFile.value)
    IN  IF schemaFile.threw \/ schema.threw THEN 1
        ELSE IF validate.threw THEN 1
        ELSE IF Len(args) # 1 THEN 1
        ELSE IF inputFile.threw \/ inputData.threw THEN 1
        ELSE IF Validates(inputData.value) THEN 0
        ELSE 1

\* The paths of the runs, and what may be at each
SchemaFiles ==
    { Missing, Unreadable,
      File("garbage", NullValue),
      File("yaml", SchemaValue(FALSE)),
      File("json", SchemaValue(FALSE)),
      File("json", SchemaValue(TRUE)),
      File("json", MalformedSchemaValue) }

YamlSchemaFiles ==
    { Missing,
      File("garbage", NullValue),
      File("yaml", NullValue),
      File("yaml", SchemaValue(TRUE)) }

TextFiles == { Missing, File("json", SchemaValue(TRUE)) }

MessageFiles ==
    { Missing,
      File("garbage", NullValue),
      File("json", NullValue),
      File("json", MessageValue(FALSE, "")),
      File("json", MessageValue(TRUE, "frustrated")),
      File("json", MessageValue(TRUE, "frustration")) }

FileSystems ==
    { ("schema/mcp-l-schema.json" :> schema) @@ ("schema/mcp-l-schema.yaml" :> yaml)
         @@ ("dummy.txt" :> text) @@ ("message.json" :> message) :
      schema \in SchemaFiles, yaml \in YamlSchemaFiles, text \in TextFiles,
      message \in MessageFiles }

SchemaPaths ==
    { Undefined, Str(""), Str("schema/mcp-l-schema.json"),
      Str("schema/mcp-l-schema.yaml"), Str("dummy.txt"), Str("absent.yml") }

Arguments ==
    { <<>>, <<"message.json">>, <<"absent.json">>,
      <<"message.json", "message.json">> }

ToolsInit ==
    /\ config = Undefined
    /\ dictionary = NoDictionary
    /\ typed = <<>>
    /\ content = Undefined
    /\ analysis = NoAnalysis
    /\ NoDilution
    /\ NoMessages
    /\ NoInstances
    /\ NoBuilder
    /\ files \in FileSystems
    /\ lastRun = NoRun
    /\ validator = NoValidator
    /\ thrown = NoError
    /\ exitCode = -1

\* validator = new MCPLValidator(schemaPath)
ConstructValidator(schemaPath) ==
    /\ LET outcome == NewMCPLValidator(files, schemaPath)
       IN  /\ validator' = outcome.instance
           /\ thrown' = outcome.error
    /\ lastRun' = [program |-> "new MCPLValidator", args |-> <<schemaPath>>]
    /\ exitCode' = -1
    /\ UNCHANGED <<files, analyzerVars, scoreVars, messageVars, instanceVars,
                   builderVars>>

\* validate-mcpl args
RunValidateMcpl(args) ==
    /\ exitCode' = validateMcpl(files, args)
    /\ lastRun' = [program |-> "validate-mcpl", args |-> args]
    /\ validator' = NoValidator
    /\ thrown' = NoError
    /\ UNCHANGED <<files, analyzerVars, scoreVars, messageVars, instanceVars,
                   builderVars>>

ToolsNext ==
    \/ \E schemaPath \in SchemaPaths : ConstructValidator(schemaPath)
    \/ \E args \in Arguments : RunValidateMcpl(args)

SpecTools == ToolsInit /\ [][ToolsNext]_vars

(***************************************************************************)
(* Properties of analyze, checked under Spec.  They are stated on the      *)
(* views taken when analyze was called and when it returned.               *)
(***************************************************************************)
Called == calls > 0

\* A view of an object (a mapping of the property names) rather than of a
\* primitive value
IsObjectView(v) == "k" \notin DOMAIN v

\* !!v on a view
TruthyView(v) == IsObjectView(v) \/ ~Falsy(v)

\* message.behavior_tags.<tag> read on a view of a message, undefined when
\* behavior_tags is not an object
TagOf(view, tag) ==
    IF IsObjectView(view.behavior_tags) THEN view.behavior_tags[tag] ELSE Undefined

SentimentView(type, confidence) ==
    [EmptyObject EXCEPT !.detected = Str(type), !.confidence = Num(confidence)]

\* Whether JSON can represent the value of a view
RECURSIVE IsJsonView(_)
IsJsonView(v) ==
    IF IsObjectView(v) THEN \A key \in Keys : IsJsonView(v[key]) ELSE v.k # "nan"

\* C1 as stated: for every message whose content is absent, null or not a
\* string, the returned behavior_tags.sentiment is {neutral, 1.0}.
C1_AsStated ==
    (Called /\ ~IsString(callView.content)) =>
        TagOf(returnView, "sentiment") = SentimentView("neutral", 10000)

\* C1 amended: for every message whose content is absent, null or not a
\* string and whose behavior_tags holds no truthy sentiment, the returned
\* behavior_tags.sentiment is {neutral, 1.0}, for every configuration.
C1_NonTextIsNeutralCertain ==
    (Called /\ ~IsString(callView.content)
            /\ ~TruthyView(TagOf(callView, "sentiment"))) =>
        TagOf(returnView, "sentiment") = SentimentView("neutral", 10000)

\* A message with a number as content has been analysed by an analyzer with
\* a configured threshold
C1_Witness ==
    /\ Called
    /\ callView.content = Num(123)
    /\ config.confidenceThreshold = 9900
    /\ scored
    /\ TagOf(returnView, "sentiment") = SentimentView("neutral", 10000)

\* C2 as stated: for content equal to the empty string (and no sentiment in
\* the message) the result is neutral with confidence 0.8.
C2_AsStated ==
    (Called /\ callView.content = Str("")
            /\ ~TruthyView(TagOf(callView, "sentiment"))) =>
        TagOf(returnView, "sentiment") = SentimentView("neutral", 8000)

\* C2 amended: for content equal to the empty string (and no truthy
\* sentiment in the message) the result is neutral with confidence 1.0, the
\* certainty result of the guard.
C2_EmptyStringIsNeutralCertain ==
    (Called /\ callView.content = Str("")
            /\ ~TruthyView(TagOf(callView, "sentiment"))) =>
        TagOf(returnView, "sentiment") = SentimentView("neutral", 10000)

\* A message with the empty string as content has been analysed
C2_Witness ==
    /\ Called
    /\ callView.content = Str("")
    /\ scored
    /\ TagOf(returnView, "sentiment").confidence = Num(10000)

\* C3 as stated: whenever the input has a behavior_tags.sentiment property,
\* whatever its value (null included), the returned sentiment equals it and
\* nothing is scored.
C3_AsStated ==
    (Called /\ TagOf(callView, "sentiment") # Undefined) =>
        /\ TagOf(returnView, "sentiment") = TagOf(callView, "sentiment")
        /\ ~scored

\* C3 amended: whenever the input has a truthy behavior_tags.sentiment, the
\* returned sentiment equals it and nothing is scored; a sentiment that is
\* present but falsy (null) is scored over like an absent one.
C3_TruthySentimentIsKept ==
    Called =>
        /\ TruthyView(TagOf(callView, "sentiment")) =>
              /\ TagOf(returnView, "sentiment") = TagOf(callView, "sentiment")
              /\ ~scored
        /\ ~TruthyView(TagOf(callView, "sentiment")) =>
              /\ scored
              /\ IsObjectView(TagOf(returnView, "sentiment"))

\* A message whose text a special case matches, and which carries a sentiment
\* outside the scorer's vocabulary, has been returned with that sentiment
C3_Witness ==
    /\ Called
    /\ callView.content = Str("I'm really happy with this product, it works great!")
    /\ TagOf(callView, "sentiment") = SentimentView("custom_sentiment", 9500)
    /\ TagOf(returnView, "sentiment") = SentimentView("custom_sentiment", 9500)
    /\ ~scored

\* C4 as stated: every top-level property other than behavior_tags, and
\* every behavior tag other than sentiment, has the same value in the
\* returned message as in the input.
C4_AsStated ==
    Called =>
        /\ \A key \in Keys \ {"behavior_tags"} : returnView[key] = callView[key]
        /\ \A tag \in Keys \ {"sentiment"} :
              TagOf(returnView, tag) = TagOf(callView, tag)

\* C4 amended: every top-level property other than behavior_tags, and every
\* behavior tag other than sentiment, whose value JSON can represent has the
\* same value in the returned message as in the input; a NaN comes back as
\* null.
C4_OtherFieldsKept ==
    Called =>
        /\ \A key \in Keys \ {"behavior_tags"} :
              /\ IsJsonView(callView[key]) => returnView[key] = callView[key]
              /\ callView[key] = NaN => returnView[key] = Null
        /\ \A tag \in Keys \ {"sentiment"} :
              IsJsonView(TagOf(callView, tag)) =>
                  TagOf(returnView, tag) = TagOf(callView, tag)

\* A message with another behavior tag and no sentiment has been given a
\* sentiment, the other tag still there
C4_Witness ==
    /\ Called /\ scored
    /\ IsObjectView(TagOf(callView, "mirror_intent"))
    /\ TagOf(returnView, "mirror_intent") = TagOf(callView, "mirror_intent")
    /\ TagOf(callView, "sentiment") = Undefined
    /\ IsObjectView(TagOf(returnView, "sentiment"))
    /\ returnView.id = Num(42)

\* C5: analyze does not change its input, and the returned message shares
\* no object with the input: each of the two messages reads as the caller's
\* own writes to it left it, whatever was written to the other.
C5_NoSharedStructure ==
    /\ View(heap, input) = expectedInput
    /\ output # Undefined =>
          /\ View(heap, output) = expectedOutput
          /\ Reachable(heap, input) \cap Reachable(heap, output) = {}

\* The caller has written to a nested tag object of the returned message of
\* an input that has that tag
C5_Witness ==
    /\ Called /\ writes > 0
    /\ output # Undefined
    /\ IsObjectView(TagOf(expectedInput, "mirror_intent"))
    /\ TagOf(expectedInput, "mirror_intent").detected = Str("mirrored")
    /\ TagOf(expectedOutput, "mirror_intent").detected = Str("changed")

\* C6: when the message handed to analyze is one that analyze returned, the
\* call returns an equal message and scores nothing.
C6_Idempotent ==
    (calls > 1 /\ callView = prevReturnView) =>
        /\ returnView = prevReturnView
        /\ ~scored

\* The result of a call that scored the text has been analysed again
C6_Witness ==
    /\ calls > 1
    /\ callView = prevReturnView
    /\ returnView = prevReturnView
    /\ TagOf(returnView, "sentiment") = SentimentView("positive", 9000)
    /\ TagOf(View(heap, Ref(1)), "sentiment") = Undefined

(***************************************************************************)
(* Properties of analyzeSentiment, checked under SpecScore.                *)
(***************************************************************************)
Analysed == analysis # NoAnalysis

\* content is text that passes the guard of analyzeSentiment
IsText == IsString(content) /\ content.s # ""

\* The conditions of the five override rules on the lower-cased text
Rule1(t) == includes(t, "really happy") /\ includes(t, "works great")
Rule2(t) == includes(t, "terrible") /\ includes(t, "disappointed") /\ includes(t, "frustrated")
Rule3(t) == includes(t, "told you multiple times") \/ includes(t, "still doesn't work")
Rule4(t) == includes(t, "wow") /\ includes(t, "amazing") /\ includes(t, "can't believe")
Rule5(t) == includes(t, "spectacular") /\ dictionary["spectacular"] >= 18

OverrideMatches ==
    /\ IsText
    /\ LET t == toLowerCase(content.s)
       IN  Rule1(t) \/ Rule2(t) \/ Rule3(t) \/ Rule4(t) \/ Rule5(t)

OnGenericPath == IsText /\ ~OverrideMatches

\* C7: for non-empty text the result is the fixed result of the first rule,
\* in the order 1..5, whose condition the text satisfies, whatever else the
\* text contains.
C7_FirstOverrideWins ==
    (Analysed /\ IsText) =>
        LET t == toLowerCase(content.s)
        IN  /\ Rule1(t) => analysis = Result("positive", 9000)
            /\ (~Rule1(t) /\ Rule2(t)) => analysis = Result("negative", 9000)
            /\ (~Rule1(t) /\ ~Rule2(t) /\ Rule3(t))
                  => analysis = Result("frustration", 9000)
            /\ (~Rule1(t) /\ ~Rule2(t) /\ ~Rule3(t) /\ Rule4(t))
                  => analysis = Result("excitement", 9500)
            /\ (~Rule1(t) /\ ~Rule2(t) /\ ~Rule3(t) /\ ~Rule4(t) /\ Rule5(t))
                  => analysis = Result("excitement", 9000)

\* A text satisfying the rules 2 and 4 but not rule 1 has been analysed, and
\* the result is that of rule 2
C7_Witness ==
    /\ Analysed /\ IsText
    /\ LET t == toLowerCase(content.s)
       IN  ~Rule1(t) /\ Rule2(t) /\ Rule4(t)
    /\ analysis = Result("negative", 9000)

\* C8: a text matched by an override rule is never demoted to neutral by the
\* confidence floor: its result keeps a non-neutral category and the fixed
\* confidence 0.90 or 0.95, whatever the configured threshold.
C8_OverrideIgnoresThreshold ==
    (Analysed /\ OverrideMatches) =>
        /\ analysis.type \in {"positive", "negative", "frustration", "excitement"}
        /\ analysis.confidence \in {9000, 9500}

\* An override result has been returned under a threshold above its confidence
C8_Witness ==
    /\ Analysed /\ OverrideMatches
    /\ analysis.confidence = 9500
    /\ config.confidenceThreshold > 9500

\* C9: on the generic path, the result is {neutral, 0.8} when the capped
\* confidence of the threshold mapping is strictly below the configured
\* threshold, and the capped candidate itself otherwise.
C9_ConfidenceFloor ==
    (Analysed /\ OnGenericPath) =>
        LET c == Candidate(dictionary, content.s)
            capped == Min(c.confidence, 9800)
        IN  IF capped < config.confidenceThreshold
            THEN analysis = Result("neutral", 8000)
            ELSE analysis = Result(c.type, capped)

\* A non-neutral candidate has been demoted to neutral by a configured
\* (non-default) threshold
C9_Witness ==
    /\ Analysed /\ OnGenericPath
    /\ config.confidenceThreshold = 8500
    /\ Candidate(dictionary, content.s).type = "positive"
    /\ analysis = Result("neutral", 8000)

\* C10 as stated: the confidence lies in [0, 1], and is at most 0.98 for
\* every input that no override rule matches.
C10_AsStated ==
    Analysed =>
        /\ analysis.confidence >= 0 /\ analysis.confidence <= 10000
        /\ ~OverrideMatches => analysis.confidence <= 9800

\* C10 amended: the confidence lies in [0, 1]; it is at most 0.98 for every
\* non-empty text that no override rule matches; it is 1.0 for content that
\* is absent, not a string or the empty string.
C10_ConfidenceRange ==
    Analysed =>
        /\ analysis.confidence >= 0 /\ analysis.confidence <= 10000
        /\ OnGenericPath => analysis.confidence <= 9800
        /\ ~IsText => analysis.confidence = 10000

\* A text on the generic path whose confidence before the cap exceeds 0.98
\* has been analysed and returned with 0.98
C10_Witness ==
    /\ Analysed /\ OnGenericPath
    /\ Candidate(dictionary, content.s).confidence > 9800
    /\ analysis.confidence = 9800

(***************************************************************************)
(* Properties of the threshold mapping, checked under SpecWords.  The      *)
(* normalized score of the text in content is read as the pair             *)
(* (Score, WordCount); a candidate is observed through the cap and the     *)
(* fallback to neutral, which are applied to whatever the mapping chose.   *)
(***************************************************************************)
Lower == toLowerCase(content.s)
WordCount == SplitLength(Lower)
Score == sentimentScore(dictionary, Lower)

\* normalizedScore > t / 10, normalizedScore < -(t / 10), for the score s of a
\* text of w words
NormalizedAbove(s, w, t) == s > 0 /\ s * s > t * t * w
NormalizedBelow(s, w, t) == s < 0 /\ s * s > t * t * w

\* 0.7 + |normalizedScore| / d, in ten-thousandths
ConfidenceOver(s, w, d) ==
    7000 + Isqrt(((1000 \div d) * (1000 \div d) * s * s) \div w)

\* What is returned for a candidate of the given type and confidence
ReturnedFor(type, confidence) ==
    IF Min(confidence, 9800) < config.confidenceThreshold
    THEN Result("neutral", 8000)
    ELSE Result(type, Min(confidence, 9800))

\* C11: on the generic path with normalizedScore > 0.5 the candidate is
\* excitement with confidence min(0.98, 0.7 + normalizedScore / 10) exactly
\* when normalizedScore > 1.5, or normalizedScore > 0.8 and the original text
\* holds more than one '!'; otherwise it is positive with confidence
\* min(0.98, 0.7 + normalizedScore / 5).
C11_PositiveRange ==
    (Analysed /\ OnGenericPath) =>
        LET s == Score
            w == WordCount
        IN  NormalizedAbove(s, w, 5) =>
                IF \/ NormalizedAbove(s, w, 15)
                   \/ NormalizedAbove(s, w, 8) /\ exclamationCount(content.s) > 1
                THEN analysis = ReturnedFor("excitement", ConfidenceOver(s, w, 10))
                ELSE analysis = ReturnedFor("positive", ConfidenceOver(s, w, 5))

\* A text whose normalized score lies between 0.8 and 1.5 and which holds two
\* exclamation marks has been classified excitement
C11_Witness ==
    /\ Analysed /\ OnGenericPath
    /\ exclamationCount(content.s) = 2
    /\ LET s == Score
           w == WordCount
       IN  /\ NormalizedAbove(s, w, 8) /\ ~NormalizedAbove(s, w, 15)
           /\ analysis = Result("excitement", ConfidenceOver(s, w, 10))

\* C12: on the generic path with normalizedScore < -0.5 the candidate is
\* frustration exactly when the lower-cased text contains one of 'already',
\* 'still', 'multiple times', 'told you', 'doesn't work', or
\* normalizedScore < -1.0; otherwise it is negative; in both cases the
\* confidence is min(0.98, 0.7 + |normalizedScore| / 5).
C12_NegativeRange ==
    (Analysed /\ OnGenericPath) =>
        LET s == Score
            w == WordCount
            lowerContent == Lower
        IN  NormalizedBelow(s, w, 5) =>
                IF \/ \E indicator \in {"already", "still", "multiple times",
                                        "told you", "doesn't work"} :
                          includes(lowerContent, indicator)
                   \/ NormalizedBelow(s, w, 10)
                THEN analysis = ReturnedFor("frustration", ConfidenceOver(s, w, 5))
                ELSE analysis = ReturnedFor("negative", ConfidenceOver(s, w, 5))

\* A text holding 'still', with a normalized score between -1.0 and -0.5, has
\* been classified frustration
C12_Witness ==
    /\ Analysed /\ OnGenericPath
    /\ includes(Lower, "still")
    /\ LET s == Score
           w == WordCount
       IN  /\ NormalizedBelow(s, w, 5) /\ ~NormalizedBelow(s, w, 10)
           /\ analysis = Result("frustration", ConfidenceOver(s, w, 5))

\* C13: on the generic path the candidate is neutral with confidence 0.8
\* exactly when -0.5 <= normalizedScore <= 0.5, both boundaries included;
\* every other score gives a candidate of the positive or of the negative
\* range, so the three ranges leave no gap and do not overlap.
C13_NeutralRange ==
    (Analysed /\ OnGenericPath) =>
        LET s == Score
            w == WordCount
        IN  /\ s * s <= 25 * w => analysis = Result("neutral", 8000)
            /\ s * s > 25 * w =>
                  /\ s > 0 =>
                        analysis \in {ReturnedFor("excitement", ConfidenceOver(s, w, 10)),
                                      ReturnedFor("positive", ConfidenceOver(s, w, 5))}
                  /\ s < 0 =>
                        analysis \in {ReturnedFor("frustration", ConfidenceOver(s, w, 5)),
                                      ReturnedFor("negative", ConfidenceOver(s, w, 5))}
                  /\ config.confidenceThreshold <= 7000 => analysis.type # "neutral"

\* A text whose normalized score is exactly 0.5 has been classified neutral
C13_Witness ==
    /\ Analysed /\ OnGenericPath
    /\ analysis = Result("neutral", 8000)
    /\ LET s == Score
           w == WordCount
       IN  s > 0 /\ s * s = 25 * w

(***************************************************************************)
(* Properties of dilution, checked under SpecWords: a text T has been      *)
(* analysed, filler has been appended to it, and the longer text T' has    *)
(* been analysed too.                                                      *)
(***************************************************************************)
Diluted == Analysed /\ baseAnalysis # NoAnalysis

BaseLower == toLowerCase(baseContent.s)

\* T holds a term of the lexicon
BaseHasSentiment ==
    LET base == BaseLower
    IN  \E term \in DOMAIN dictionary : MatchCount(base, term) > 0

\* The filler appended last
AppendedFiller == toLowerCase(Vocabulary[typed[Len(typed)]])

\* The filler holds no term of the lexicon and no frustration indicator, and
\* satisfies no override rule
FillerIsNeutral ==
    LET filler == AppendedFiller
    IN  /\ \A term \in DOMAIN dictionary : MatchCount(filler, term) = 0
        /\ ~hasFrustrationIndicator(filler)
        /\ ~(\/ Rule1(filler) \/ Rule2(filler) \/ Rule3(filler)
             \/ Rule4(filler) \/ Rule5(filler))

\* Appending the filler completed nothing: every term of the lexicon occurs
\* in T' as often as in T, and T' satisfies the override rules T satisfies
NothingCompleted ==
    LET longer == Lower
        base == BaseLower
    IN  /\ \A term \in DOMAIN dictionary :
              MatchCount(longer, term) = MatchCount(base, term)
        /\ Rule1(longer) <=> Rule1(base)
        /\ Rule2(longer) <=> Rule2(base)
        /\ Rule3(longer) <=> Rule3(base)
        /\ Rule4(longer) <=> Rule4(base)
        /\ Rule5(longer) <=> Rule5(base)

\* C14 as stated: for T with sentiment-bearing terms and T' obtained by
\* appending filler words that match no lexicon term, no frustration
\* indicator and no override, if T and T' are classified in the same category
\* then confidence(T') <= confidence(T).
C14_AsStated ==
    (Diluted /\ analysis.type = baseAnalysis.type
             /\ BaseHasSentiment /\ FillerIsNeutral) =>
        analysis.confidence <= baseAnalysis.confidence

\* C14 amended: the same, for filler whose first words complete no lexicon
\* term and no override phrase begun by the last words of T (every lexicon
\* term occurs in T' as often as in T, and T' satisfies the override rules T
\* satisfies).
C14_MonotonicDilution ==
    (Diluted /\ analysis.type = baseAnalysis.type
             /\ BaseHasSentiment /\ FillerIsNeutral /\ NothingCompleted) =>
        analysis.confidence <= baseAnalysis.confidence

\* A text classified frustration has been diluted, and the longer text has
\* been classified frustration with a lower confidence
C14_Witness ==
    /\ Diluted
    /\ baseAnalysis.type = "frustration"
    /\ analysis.type = "frustration"
    /\ analysis.confidence < baseAnalysis.confidence
    /\ BaseHasSentiment /\ FillerIsNeutral /\ NothingCompleted

BaseWordCount == SplitLength(BaseLower)
BaseScore == sentimentScore(dictionary, BaseLower)

\* T satisfies an override rule
BaseOverrideMatches ==
    LET base == BaseLower
    IN  Rule1(base) \/ Rule2(base) \/ Rule3(base) \/ Rule4(base) \/ Rule5(base)

\* C15 as stated: a short message with strong sentiment (one classified with
\* a sentiment) has a strictly higher confidence than the longer message
\* holding the same sentiment words diluted by neutral words, whatever the
\* categories of the two.
C15_AsStated ==
    (Diluted /\ baseAnalysis.type # "neutral"
             /\ BaseHasSentiment /\ FillerIsNeutral /\ NothingCompleted) =>
        analysis.confidence < baseAnalysis.confidence

\* C15 amended: the longer message has the same raw score over more words,
\* hence a normalized score strictly nearer to 0; its confidence is strictly
\* lower when both messages are scored by the generic path into the same
\* non-neutral category and the confidence of the short one is below the cap.
\* Across categories the confidence can rise (excitement divides by 10,
\* positive by 5).
C15_DilutionLowersScore ==
    (Diluted /\ BaseHasSentiment /\ FillerIsNeutral /\ NothingCompleted) =>
        /\ Score = BaseScore
        /\ WordCount > BaseWordCount
        /\ (/\ ~BaseOverrideMatches
            /\ analysis.type = baseAnalysis.type
            /\ baseAnalysis.type # "neutral"
            /\ baseAnalysis.confidence < 9800)
              => analysis.confidence < baseAnalysis.confidence

\* A short message classified excitement has been diluted into a longer one
\* classified excitement with a strictly lower confidence
C15_Witness ==
    /\ Diluted
    /\ baseAnalysis.type = "excitement"
    /\ analysis.type = "excitement"
    /\ analysis.confidence < baseAnalysis.confidence
    /\ ~BaseOverrideMatches
    /\ BaseHasSentiment /\ FillerIsNeutral /\ NothingCompleted

(***************************************************************************)
(* Properties of the analyzer instance, checked under SpecCalls.           *)
(***************************************************************************)
\* C16 as stated: analyzeSentiment is total: for every content, text or not,
\* and every configuration, custom dictionaries with arbitrary terms for keys
\* included, the call returns a result of a sentiment type and a confidence
\* and never raises.
C16_AsStated ==
    Analysed =>
        /\ analysis.type \in SentimentTypes
        /\ analysis.confidence >= 0
        /\ analysis.confidence <= 10000

\* C20: after construction no call of analyze or of analyzeSentiment, with
\* whatever message or content, changes the merged lexicon or the
\* configuration of the analyzer: across every step both keep the values the
\* constructor gave them.
C20_AnalyzerUnchanged ==
    [][config' = config /\ dictionary' = dictionary]_vars

\* Both methods have been called, analyze twice, on an analyzer with a custom
\* dictionary, whose lexicon and configuration are those of the constructor
C20_Witness ==
    /\ Analysed
    /\ calls > 1
    /\ scored
    /\ \E cfg \in CallConfigs :
          /\ cfg.customDictionary # NoDictionary
          /\ config = ConstructConfig(cfg)
          /\ dictionary = ConstructDictionary(cfg)

(***************************************************************************)
(* Properties of the merged lexicon, checked under SpecWords.              *)
(***************************************************************************)
\* None of the first four override rules matches the text
BeyondFourthRule ==
    /\ IsText
    /\ LET lowerContent == Lower
       IN  /\ ~Rule1(lowerContent) /\ ~Rule2(lowerContent)
           /\ ~Rule3(lowerContent) /\ ~Rule4(lowerContent)

\* The text holds a term that weighs 1.8 or more in the merged lexicon
HoldsStrongTerm ==
    LET lowerContent == Lower
    IN  \E term \in DOMAIN dictionary :
            dictionary[term] >= 18 /\ includes(lowerContent, toLowerCase(term))

\* C17 as stated: a text that matches none of the first four override rules
\* and holds a term whose weight in the merged lexicon, built-in or custom, is
\* at least 1.8 is classified {excitement, 0.90} by the fifth rule; terms
\* below 1.8 never trigger it (the text is scored by the generic path).
C17_AsStated ==
    (Analysed /\ BeyondFourthRule) =>
        IF HoldsStrongTerm
        THEN analysis = Result("excitement", 9000)
        ELSE analysis = GenericScoring(config, dictionary, content.s)

\* C17 amended: the fifth rule looks for the one term 'spectacular': a text
\* beyond the first four rules is classified {excitement, 0.90} by it exactly
\* when it holds 'spectacular' and the merged weight of 'spectacular' is at
\* least 1.8; any other term, whatever its weight, is scored by the generic
\* path.
C17_SpectacularOnly ==
    (Analysed /\ BeyondFourthRule) =>
        IF includes(Lower, "spectacular") /\ dictionary["spectacular"] >= 18
        THEN analysis = Result("excitement", 9000)
        ELSE analysis = GenericScoring(config, dictionary, content.s)

\* A text holding a custom term of weight 1.8 has been scored by the generic
\* path and classified positive
C17_Witness ==
    /\ Analysed /\ BeyondFourthRule
    /\ "specialized_term" \in DOMAIN dictionary
    /\ dictionary["specialized_term"] = 18
    /\ includes(Lower, "specialized_term")
    /\ ~includes(Lower, "spectacular")
    /\ analysis.type = "positive"

\* The analyzer of the test of custom dictionaries:
\* new SentimentAnalyzer({customDictionary: {specialized_term: 1.8,
\* domain_specific_negative: -1.7}})
TestDictionaryAnalyzer ==
    /\ config.customDictionary =
           ("specialized_term" :> 18) @@ ("domain_specific_negative" :> -17)
    /\ config.confidenceThreshold = 6500

\* The text holds the term once and no other term of the lexicon
HoldsOnly(term) ==
    /\ IsText
    /\ LET lowerContent == Lower
       IN  /\ MatchCount(lowerContent, term) = 1
           /\ \A other \in DOMAIN dictionary \ {term} :
                  MatchCount(lowerContent, other) = 0

\* C18 as stated: with the custom dictionary of the test, a ten-word text
\* holding specialized_term once and no other lexicon term is classified
\* positive, not excitement, with confidence > 0.8, and a five-word text
\* holding domain_specific_negative once (and no other lexicon term) is
\* classified negative with confidence > 0.8.
C18_AsStated ==
    (Analysed /\ TestDictionaryAnalyzer) =>
        /\ (WordCount = 10 /\ HoldsOnly("specialized_term")) =>
              analysis.type = "positive" /\ analysis.confidence > 8000
        /\ (WordCount = 5 /\ HoldsOnly("domain_specific_negative")) =>
              analysis.type = "negative" /\ analysis.confidence > 8000

\* C18 amended: the five-word text is classified negative when it holds none
\* of the frustration indicators, and frustration, with the same confidence,
\* when it holds one ('still' and 'doesn't work' are indicators without being
\* terms of the lexicon).
C18_CustomTermsScored ==
    (Analysed /\ TestDictionaryAnalyzer) =>
        /\ (WordCount = 10 /\ HoldsOnly("specialized_term")) =>
              analysis.type = "positive" /\ analysis.confidence > 8000
        /\ (WordCount = 5 /\ HoldsOnly("domain_specific_negative")) =>
              /\ analysis.type =
                     IF includes(Lower, "still") \/ includes(Lower, "doesn't work")
                     THEN "frustration" ELSE "negative"
              /\ analysis.confidence > 8000

\* A ten-word text holding specialized_term once has been classified positive
\* with a confidence above 0.8
C18_Witness ==
    /\ Analysed /\ TestDictionaryAnalyzer
    /\ WordCount = 10 /\ HoldsOnly("specialized_term")
    /\ analysis.type = "positive"
    /\ analysis.confidence > 8000

\* The lexicon C19 describes: the custom entries merged over the built-in
\* ones with the keys compared ignoring letter case, so that a custom entry
\* replaces the built-in entry of the same letters
CaseInsensitiveMerge(custom) ==
    LET customTerms == {toLowerCase(k) : k \in DOMAIN custom}
    IN  [t \in DOMAIN BuiltinDictionary \cup customTerms |->
            IF t \in customTerms
            THEN custom[CHOOSE k \in DOMAIN custom : toLowerCase(k) = t]
            ELSE BuiltinDictionary[t]]

\* C19 as stated: the merged lexicon is case-insensitive and custom entries
\* win on collision: for a custom entry whose key equals a built-in term,
\* compared ignoring letter case, only the custom weight is used for that
\* term in scoring and in the weight-based override rule, and the built-in
\* weight no longer contributes: every text is classified as with the custom
\* entries merged case-insensitively over the built-in ones.
C19_AsStated ==
    (Analysed /\ IsText) =>
        analysis = analyzeSentiment(config,
                                    CaseInsensitiveMerge(config.customDictionary),
                                    content)

(***************************************************************************)
(* Properties of analyzer instances, checked under SpecInstances.          *)
(***************************************************************************)
\* C21: the result of analysing a text with an instance does not depend on
\* the calls made before: whatever instances were constructed and whatever
\* texts were analysed since the first call, a call with the instance and the
\* text of the first call returns what the first call returned.
C21_HistoryIndependent ==
    (last.analyzer = first.analyzer /\ last.text = first.text) =>
        last.result = first.result

\* The third call so far repeats the first one, on one of two instances, and
\* returned the positive result of the first
C21_Witness ==
    /\ made = 3
    /\ Len(analyzers) = 2
    /\ last.analyzer = first.analyzer /\ last.text = first.text
    /\ last.text = "good"
    /\ last.result = Result("positive", 8400)

\* C28: analyzer instances are isolated: constructing an analyzer, with a
\* custom dictionary or without, changes no instance that exists; the
\* lexicon of every instance, constructed before or after the others, is the
\* built-in table overridden by its own custom dictionary only; and every
\* call returns what that lexicon alone gives.
C28_InstancesIsolated ==
    /\ [][\A i \in 1..Len(analyzers) : analyzers'[i] = analyzers[i]]_vars
    /\ [](\A i \in 1..Len(analyzers) :
            LET own == analyzers[i].config.customDictionary @@ BuiltinDictionary
            IN  /\ analyzers[i].dictionary = own
                /\ last.analyzer = i =>
                       last.result = analyzeSentiment(analyzers[i].config, own,
                                                      Str(last.text)))

\* An instance without a custom dictionary, constructed before an instance
\* that has one, has analysed a text holding a custom term of the other
\* after the other was constructed: the text is neutral to it
C28_Witness ==
    /\ Len(analyzers) = 2
    /\ analyzers[1].config.customDictionary = NoDictionary
    /\ "specialized_term" \in DOMAIN analyzers[2].dictionary
    /\ "specialized_term" \notin DOMAIN analyzers[1].dictionary
    /\ last = Call(1, "a specialized_term", Result("neutral", 8000))

(***************************************************************************)
(* The sentiment tag against the message schema, checked under SpecCalls.  *)
(***************************************************************************)
\* Whether the schema accepts the view of a sentiment tag: an object whose
\* detected is a string of the enum and whose confidence, when present, is a
\* number from 0 to 1
SchemaAcceptsSentiment(tag) ==
    /\ IsObjectView(tag)
    /\ tag.detected.k = "string"
    /\ tag.detected.s \in SchemaSentimentEnum
    /\ \/ tag.confidence = Undefined
       \/ /\ tag.confidence.k = "number"
          /\ tag.confidence.n >= 0
          /\ tag.confidence.n <= 10000

\* C22: whenever analyze computed the sentiment itself and returned, the
\* detected value it wrote is one of neutral, positive, negative, frustration,
\* excitement, never the schema's 'frustrated' or 'excited'; a tag classified
\* frustration or excitement is not accepted by the sentiment enum of the
\* schema.
C22_ScorerVocabulary ==
    (Called /\ scored /\ IsObjectView(returnView)) =>
        LET tag == TagOf(returnView, "sentiment")
        IN  /\ IsObjectView(tag)
            /\ tag.detected.k = "string"
            /\ tag.detected.s \in {"neutral", "positive", "negative",
                                   "frustration", "excitement"}
            /\ tag.detected.s \notin {"frustrated", "excited"}
            /\ tag.detected.s \in {"frustration", "excitement"} =>
                  ~SchemaAcceptsSentiment(tag)
            /\ tag.detected.s \in {"neutral", "positive", "negative"} =>
                  SchemaAcceptsSentiment(tag)

\* analyze classified a message excitement and the schema does not accept its
\* tag
C22_Witness ==
    /\ Called /\ scored /\ IsObjectView(returnView)
    /\ TagOf(returnView, "sentiment").detected = Str("excitement")
    /\ ~SchemaAcceptsSentiment(TagOf(returnView, "sentiment"))

(***************************************************************************)
(* Properties of the scorer on whole texts, checked under SpecTexts.       *)
(***************************************************************************)
\* The characters of the texts that are neither letters nor white space
IsPunctuation(c) == c \in {"!", "-", "?", ".", ",", "'", "_"}

PunctuationOnly(t) == \A i \in 1..Len(t) : IsPunctuation(CharAt(t, i))

WhiteSpaceOnly(t) == \A i \in 1..Len(t) : IsSpace(CharAt(t, i))

\* C23: for every non-empty text, text of punctuation only and text of white
\* space only included, wordCount is at least 1 and the analysis returns a
\* category and a confidence; text of punctuation only, without white space,
\* has wordCount exactly 1.
C23_WordCountPositive ==
    IsText =>
        LET w == WordCount
        IN  /\ w >= 1
            /\ PunctuationOnly(content.s) => w = 1
            /\ Analysed =>
                  /\ analysis.type \in SentimentTypes
                  /\ analysis.confidence > 0
                  /\ analysis.confidence <= 10000

\* The symbols of the tests have been analysed as one word, and white space
\* alone is a text of the model
C23_Witness ==
    /\ content = Str("!!!---???...")
    /\ PunctuationOnly(content.s)
    /\ WordCount = 1
    /\ analysis = Result("excitement", 9400)
    /\ WhiteSpaceOnly(" ") /\ " " \in Texts

(***************************************************************************)
(* Properties of the message builder, checked under SpecBuilder.           *)
(***************************************************************************)
\* The tag each setter writes and the properties its arguments go to
SetterTag ==
    [addSentiment |-> "sentiment",
     addMirrorIntent |-> "mirror_intent",
     addClarifyBeforeExecute |-> "clarify_before_execute",
     addFollowUpRequired |-> "follow_up_required",
     addSuggestedTone |-> "suggested_tone",
     addAgentFeedback |-> "agent_feedback",
     addSSCSCompliance |-> "sscs_compliance"]

SetterProperties ==
    [addSentiment |-> <<"detected", "confidence">>,
     addMirrorIntent |-> <<"mirrored_text", "confidence">>,
     addClarifyBeforeExecute |-> <<"required", "clarification_prompt", "options">>,
     addFollowUpRequired |-> <<"required", "follow_up_items">>,
     addSuggestedTone |-> <<"tone", "explanation">>,
     addAgentFeedback |-> <<"context_update", "user_preferences">>,
     addSSCSCompliance |-> <<"story_type", "tdd_phase", "workflow_step">>]

\* The view of the tag of a setter whose last call had the arguments args:
\* an object holding the arguments that were not undefined, nothing when the
\* setter was not called
ExpectedTag(setter, args) ==
    IF args = <<>> THEN Undefined
    ELSE [key \in BuilderKeys |->
            LET names == SetterProperties[setter]
            IN  IF \E i \in 1..Len(names) : names[i] = key
                THEN args[CHOOSE i \in 1..Len(names) : names[i] = key]
                ELSE Undefined]

\* The view of the message of a builder whose setters were called last with
\* the arguments args
ExpectedMessage(args) ==
    [key \in BuilderKeys |->
        IF key = "sscs_compliance"
        THEN ExpectedTag("addSSCSCompliance", args.addSSCSCompliance)
        ELSE IF key = "behavior_tags"
        THEN [tag \in BuilderKeys |->
                IF \E setter \in Setters \ {"addSSCSCompliance"} :
                       SetterTag[setter] = tag
                THEN LET setter == CHOOSE x \in Setters : SetterTag[x] = tag
                     IN  ExpectedTag(setter, args[setter])
                ELSE Undefined]
        ELSE Undefined]

\* C24 as stated: the message build() returned is no reference to the state
\* of the builder: whatever setters are called after build() returned, the
\* built message, its behavior_tags included, reads as it did (but for the
\* caller's own writes to it), and whatever the caller wrote to a built
\* message, a later build() returns the message the setter calls made.
C24_AsStated ==
    built # Undefined =>
        /\ BuilderView(objects, built) = builtView
        /\ buildView = ExpectedMessage(builtFrom)

\* C29: each setter replaces its own tag with an object holding the
\* arguments that were not undefined, leaves every other tag alone and
\* returns the builder: as long as the caller writes to no built message,
\* each tag of the builder's message holds the arguments of the last call of
\* its setter (so calls of setters of different tags commute), and a call
\* that is a setter call returns the builder.
C29_LastCallWins ==
    /\ [](~written =>
            BuilderView(objects, objects[TheBuilder.n].message)
                = ExpectedMessage(lastArgs))
    /\ [][(Len(objects') = Len(objects) + 1 /\ built' = built) =>
             /\ returned' = TheBuilder
             /\ objects'[TheBuilder.n] = objects[TheBuilder.n]]_vars

\* addSentiment was called twice, with and then without a confidence, and
\* addSSCSCompliance once; the tag holds what the second call was given
C29_Witness ==
    /\ ~written /\ built = Undefined /\ steps = 3
    /\ returned = TheBuilder
    /\ lastArgs.addSentiment = <<Str("neutral"), Undefined>>
    /\ lastArgs.addSSCSCompliance # <<>>
    /\ \E a \in 1..Len(objects) : objects[a].detected = Str("frustrated")
    /\ BuilderView(objects, objects[TheBuilder.n].message).behavior_tags.sentiment
           = [EmptyBuilderObject EXCEPT !.detected = Str("neutral")]

(***************************************************************************)
(* Properties of the schema validator and of validate-mcpl, checked under  *)
(* SpecTools.                                                              *)
(***************************************************************************)
\* What is at a path of the file system
FileAt(path) == IF path \in DOMAIN files THEN files[path] ELSE Missing

\* C25: new MCPLValidator classifies the failures of schema loading in a
\* fixed order: a path that ends in none of .json, .yaml, .yml raises
\* 'Unsupported schema format' whatever is at the path; a supported path
\* with no file raises 'Schema file not found'; any other error of reading
\* or parsing is thrown on as it is; in every failure no instance is made,
\* and without a failure one is.
C25_LoadFailuresClassified ==
    lastRun.program = "new MCPLValidator" =>
        LET arg  == lastRun.args[1]
            path == IF arg = Undefined \/ arg = Str("") THEN DefaultSchemaPath
                    ELSE arg.s
            file == FileAt(path)
            json == endsWith(path, ".json")
        IN  /\ thrown # NoError <=> validator = NoValidator
            /\ IF ~(\E ext \in {".json", ".yaml", ".yml"} : endsWith(path, ext))
               THEN thrown.message
                        = "Unsupported schema format. Use .json, .yaml, or .yml"
               ELSE IF file.state = "missing"
               THEN thrown.message = "Schema file not found: " \o path
               ELSE IF file.state = "unreadable"
               THEN thrown.code = "EACCES" /\ thrown.name = "Error"
               ELSE IF json /\ file.format # "json"
               THEN thrown.name = "SyntaxError"
               ELSE IF ~json /\ file.format = "garbage"
               THEN thrown.name = "YAMLParseError"
               ELSE IF file.value.kind = "schema"
               THEN /\ thrown = NoError
                    /\ validator = [schemaPath |-> path, schema |-> file.value]
               ELSE thrown.message = "schema is invalid"

\* A path with an extension that is not supported and no file behind it has
\* been refused for its extension
C25_Witness ==
    /\ lastRun = [program |-> "new MCPLValidator", args |-> <<Str("dummy.txt")>>]
    /\ FileAt("dummy.txt") = Missing
    /\ thrown.message = "Unsupported schema format. Use .json, .yaml, or .yml"
    /\ validator = NoValidator

\* C26: validate-mcpl exits with code 0 exactly when it is given one
\* argument, the schema is read, parsed and compiled, the input file is read
\* and parsed, and the message validates; in every other case it exits with
\* code 1.
C26_ExitCodes ==
    lastRun.program = "validate-mcpl" =>
        LET schema == FileAt(DefaultSchemaPath)
            given  == FileAt(lastRun.args[1])
        IN  /\ exitCode \in {0, 1}
            /\ exitCode = 0 <=>
                  /\ Len(lastRun.args) = 1
                  /\ schema.state = "file" /\ schema.format = "json"
                  /\ schema.value.kind = "schema" /\ ~schema.value.customKeyword
                  /\ given.state = "file" /\ given.format = "json"
                  /\ given.value.kind = "message" /\ given.value.tags
                  /\ given.value.detected \in SchemaSentimentEnum \cup {""}

\* A valid message has been validated: exit code 0
C26_Witness ==
    /\ lastRun = [program |-> "validate-mcpl", args |-> <<"message.json">>]
    /\ FileAt("message.json") = File("json", MessageValue(TRUE, "frustrated"))
    /\ exitCode = 0

(***************************************************************************)
(* Properties of the raw score and of the fallback to neutral, checked     *)
(* under SpecTexts on whole texts.                                         *)
(***************************************************************************)
\* The positions of the text t where the term pat occurs as a substring
Occurrences(t, pat) ==
    {i \in 1..Len(t) :
        i + Len(pat) - 1 <= Len(t) /\ SubSeq(t, i, i + Len(pat) - 1) = pat}

\* The greatest number of occurrences of pat in t no two of which overlap
DisjointOccurrences(t, pat) ==
    LET P == Occurrences(t, pat)
        Apart(S) == \A i \in S, j \in S : i < j => j - i >= Len(pat)
    IN  CHOOSE n \in 0..Cardinality(P) :
            /\ \E S \in SUBSET P : Apart(S) /\ Cardinality(S) = n
            /\ \A S \in SUBSET P : Apart(S) => Cardinality(S) <= n

\* The sum over the terms of weight times count
RECURSIVE WeightedSum(_, _, _)
WeightedSum(weights, counts, terms) ==
    IF terms = {} THEN 0
    ELSE LET term == CHOOSE x \in terms : TRUE
         IN  weights[term] * counts[term]
               + WeightedSum(weights, counts, terms \ {term})

\* What analyzeSentiment returns on the generic path for the raw score s
\* of a text of w words
ReturnedForScore(s, w) ==
    IF NormalizedAbove(s, w, 5)
    THEN IF \/ NormalizedAbove(s, w, 15)
            \/ NormalizedAbove(s, w, 8) /\ exclamationCount(content.s) > 1
         THEN ReturnedFor("excitement", ConfidenceOver(s, w, 10))
         ELSE ReturnedFor("positive", ConfidenceOver(s, w, 5))
    ELSE IF NormalizedBelow(s, w, 5)
    THEN IF hasFrustrationIndicator(Lower) \/ NormalizedBelow(s, w, 10)
         THEN ReturnedFor("frustration", ConfidenceOver(s, w, 5))
         ELSE ReturnedFor("negative", ConfidenceOver(s, w, 5))
    ELSE ReturnedFor("neutral", 8000)

\* C27 as stated: on the generic path the raw score is the sum, over every
\* entry of the merged lexicon, of the weight times the number of
\* occurrences of the term as a substring of the lower-cased text, every
\* position where the term occurs counted.
C27_AsStated ==
    (Analysed /\ OnGenericPath) =>
        LET lowerContent == Lower
            counts == [term \in DOMAIN dictionary |->
                          Cardinality(Occurrences(lowerContent, toLowerCase(term)))]
        IN  analysis = ReturnedForScore(
                           WeightedSum(dictionary, counts,
                               {term \in DOMAIN dictionary : counts[term] > 0}),
                           WordCount)

\* C27: on the generic path the raw score is the sum, over every entry of
\* the merged lexicon, of the weight times the number of occurrences of the
\* term as a substring of the lower-cased text that do not overlap one
\* another, whatever the word boundaries and the position: a term inside a
\* longer word counts, and a phrase and a term it contains both count.
C27_DisjointOccurrencesSummed ==
    (Analysed /\ OnGenericPath) =>
        LET lowerContent == Lower
            counts == [term \in DOMAIN dictionary |->
                          DisjointOccurrences(lowerContent, toLowerCase(term))]
        IN  analysis = ReturnedForScore(
                           WeightedSum(dictionary, counts,
                               {term \in DOMAIN dictionary : counts[term] > 0}),
                           WordCount)

\* 'greatly' has been analysed: 'great' inside it has been counted, the text
\* is positive with confidence 0.7 + 1.0 / 5
C27_Witness ==
    /\ Analysed /\ content = Str("greatly")
    /\ DisjointOccurrences(Lower, "great") = 1
    /\ analysis = Result("positive", 9000)

\* The category the threshold mapping chooses for the raw score s of a text
\* of w words
CandidateType(s, w) ==
    IF NormalizedAbove(s, w, 5)
    THEN IF \/ NormalizedAbove(s, w, 15)
            \/ NormalizedAbove(s, w, 8) /\ exclamationCount(content.s) > 1
         THEN "excitement"
         ELSE "positive"
    ELSE IF NormalizedBelow(s, w, 5)
    THEN IF hasFrustrationIndicator(Lower) \/ NormalizedBelow(s, w, 10)
         THEN "frustration"
         ELSE "negative"
    ELSE "neutral"

\* C30: with a confidenceThreshold of at most 0.7, the default 0.65 included,
\* the fallback to neutral changes no result: the category returned is the
\* category of the threshold mapping, and the confidence is above 0.8 for
\* positive, negative and frustration (the normalized score is beyond 0.5
\* and the confidence is 0.7 plus a fifth of it), above 0.78 for excitement
\* (the normalized score is above 0.8 and the confidence is 0.7 plus a tenth
\* of it) and 0.8 for neutral.  Confidences are kept in ten-thousandths
\* rounded down, so that 'above' is read as: not below, the normalized
\* score being strictly beyond its bound.
C30_FloorIdleUpToSevenTenths ==
    (Analysed /\ OnGenericPath /\ config.confidenceThreshold <= 7000) =>
        LET s == Score
            w == WordCount
        IN  /\ analysis.type = CandidateType(s, w)
            /\ analysis.confidence > 7000
            /\ analysis.type = "positive" =>
                  /\ NormalizedAbove(s, w, 5)
                  /\ analysis = Result("positive", Min(ConfidenceOver(s, w, 5), 9800))
                  /\ analysis.confidence >= 8000
            /\ analysis.type = "excitement" =>
                  /\ NormalizedAbove(s, w, 8)
                  /\ analysis = Result("excitement", Min(ConfidenceOver(s, w, 10), 9800))
                  /\ analysis.confidence >= 7800
            /\ analysis.type \in {"negative", "frustration"} =>
                  /\ NormalizedBelow(s, w, 5)
                  /\ analysis.confidence = Min(ConfidenceOver(s, w, 5), 9800)
                  /\ analysis.confidence >= 8000
            /\ analysis.type = "neutral" => analysis.confidence = 8000

\* With the threshold 0.7 a text whose excitement is close to the least
\* there is, 0.7848, has been returned as excitement
C30_Witness ==
    /\ Analysed /\ content = Str("!! x")
    /\ config.confidenceThreshold = 7000
    /\ analysis = Result("excitement", 7848)

====
